---- MODULE Spec2Model ----
(***************************************************************************)
(* Player_Performance: the match orchestrator (matchService.js) over the   *)
(* document store (firestoreService.js), with the validators and the      *)
(* performance calculator it calls.                                        *)
(*                                                                         *)
(* Conventions of the model                                                *)
(*  - a JavaScript object is a function from its field names to values; a  *)
(*    field that is undefined is absent from the DOMAIN;                   *)
(*  - null / a value is <<>> / <<v>>;                                      *)
(*  - averageScore is kept in hundredths (7333 is 73.33), which is the     *)
(*    integer Math.round(avg * 100) before the division by 100;            *)
(*  - dates are clock ticks (Timestamp.toMillis()).                        *)
(***************************************************************************)
EXTENDS Integers, Sequences, FiniteSets, TLC

\* ------------------------------------------------------------------ bounds
MaxMatches == 3      \* match documents created over a run
MaxTime == 2         \* last tick of the clock
MaxHistory == 5      \* matches already in the store when a run starts
MaxNotifications == 2   \* invocations of one subscriber's callback
MaxCalls == 3        \* calls of the debounced function
MaxDocs == 3         \* documents of one query snapshot
MaxScores == 6       \* scores handed to the trend analysis
MaxTeam == 3         \* players assigned to a coach
MaxWatches == 3      \* store watches open when a subscribe call fails
MaxCallbacks == 2    \* callbacks registered with a cross-component subscription
MaxActions == 2      \* write actions queued while offline
MaxRuns == 2         \* runs of processPendingActions under way

\* values of Math.floor(Math.random() * 24): the least and the greatest
RandomDraws == {0, 23}
\* the least alone
LeastDraw == {0}

Procs == {"a", "b"}  \* asynchronous calls that may be in flight together
Players == {"p1", "p2"}
Coach == "c1"
MatchIds == 1..MaxMatches
Subscribers == {"s1", "s2"}

Null == <<>>
Some(v) == <<v>>

Min(a, b) == IF a < b THEN a ELSE b
Max(a, b) == IF a > b THEN a ELSE b

\* Math.round of the non-negative rational num/den (den > 0): half rounds up.
MathRound(num, den) == (2 * num + den) \div (2 * den)

RECURSIVE SumSeq(_)
SumSeq(s) == IF s = <<>> THEN 0 ELSE Head(s) + SumSeq(Tail(s))

\* ------------------------------------------------- utils/validators.js
\* validateRequired: not null, not undefined, not blank.
validateRequired(obj, field) == field \in DOMAIN obj /\ obj[field] # ""

\* validateNumeric without the upper bound.
validateNumericNoMax(params, field, min, max) ==
    field \in DOMAIN params /\ params[field] >= min

\* validateNumeric on params[field]: parseFloat(undefined) is NaN.
validateNumeric(params, field, min, max) ==
    field \in DOMAIN params /\ params[field] >= min /\ params[field] <= max

\* One entry of an errors object: the key, and its value, which is a message
\* or (for parameters) the nested errors object of the sport validator.
ErrorEntry(field, message, nested) ==
    [field |-> field, message |-> message, nested |-> nested]

CheckField(ok, field, message) ==
    IF ok THEN <<>> ELSE <<ErrorEntry(field, message, <<>>)>>

validateCricketParams(params) ==
    CheckField(validateNumeric(params, "runsScored", 0, 500), "runsScored",
               "Runs scored must be between 0 and 500")
    \o CheckField(validateNumeric(params, "ballsFaced", 0, 600), "ballsFaced",
               "Balls faced must be between 0 and 600")
    \o CheckField(validateNumeric(params, "wicketsTaken", 0, 10), "wicketsTaken",
               "Wickets taken must be between 0 and 10")
    \o CheckField(validateNumeric(params, "catches", 0, 20), "catches",
               "Catches must be between 0 and 20")
    \o CheckField(validateNumeric(params, "oversBowled", 0, 50), "oversBowled",
               "Overs bowled must be between 0 and 50")

validateFootballParams(params) ==
    CheckField(validateNumeric(params, "goalsScored", 0, 20), "goalsScored",
               "Goals scored must be between 0 and 20")
    \o CheckField(validateNumeric(params, "assists", 0, 20), "assists",
               "Assists must be between 0 and 20")
    \o CheckField(validateNumeric(params, "passesCompleted", 0, 200), "passesCompleted",
               "Passes completed must be between 0 and 200")
    \o CheckField(validateNumeric(params, "tacklesMade", 0, 50), "tacklesMade",
               "Tackles made must be between 0 and 50")
    \o CheckField(validateNumeric(params, "minutesPlayed", 0, 120), "minutesPlayed",
               "Minutes played must be between 0 and 120")

validateBasketballParams(params) ==
    CheckField(validateNumeric(params, "pointsScored", 0, 100), "pointsScored",
               "Points scored must be between 0 and 100")
    \o CheckField(validateNumeric(params, "rebounds", 0, 50), "rebounds",
               "Rebounds must be between 0 and 50")
    \o CheckField(validateNumeric(params, "assists", 0, 30), "assists",
               "Assists must be between 0 and 30")
    \o CheckField(validateNumeric(params, "steals", 0, 20), "steals",
               "Steals must be between 0 and 20")
    \o CheckField(validateNumeric(params, "minutesPlayed", 0, 48), "minutesPlayed",
               "Minutes played must be between 0 and 48")

SupportedSports == {"cricket", "football", "basketball"}

\* The errors object of validateSportParameters (isValid is errors = <<>>).
validateSportParameters(sport, parameters) ==
    CASE sport = "cricket" -> validateCricketParams(parameters)
      [] sport = "football" -> validateFootballParams(parameters)
      [] sport = "basketball" -> validateBasketballParams(parameters)
      [] OTHER -> <<ErrorEntry("sport", "Invalid sport type", <<>>)>>

SportOf(matchData) == IF "sport" \in DOMAIN matchData THEN matchData.sport ELSE ""

ValidateParametersField(matchData) ==
    IF "parameters" \notin DOMAIN matchData
    THEN <<ErrorEntry("parameters", "Parameters are required", <<>>)>>
    ELSE LET nested == validateSportParameters(SportOf(matchData), matchData.parameters)
         IN  IF nested = <<>> THEN <<>>
             ELSE <<ErrorEntry("parameters", "", nested)>>

ValidateDateField(matchData, now) ==
    IF "date" \notin DOMAIN matchData
    THEN <<ErrorEntry("date", "Match date is required", <<>>)>>
    ELSE CheckField(~(matchData.date > now), "date",
                    "Match date cannot be in the future")

ValidateScoreField(matchData) ==
    IF "calculatedScore" \notin DOMAIN matchData THEN <<>>
    ELSE CheckField(validateNumeric(matchData, "calculatedScore", 0, 100),
                    "calculatedScore", "Calculated score must be between 0 and 100")

\* The first-error-only variant of validateMatchData (a validator that returns
\* at the first violated field).
validateMatchDataFirstOnly(matchData, now) ==
    LET all == CheckField(validateRequired(matchData, "playerId"), "playerId",
                          "Player ID is required")
               \o CheckField(validateRequired(matchData, "coachId"), "coachId",
                          "Coach ID is required")
               \o (IF ~validateRequired(matchData, "sport")
                   THEN <<ErrorEntry("sport", "Sport is required", <<>>)>>
                   ELSE CheckField(matchData.sport \in SupportedSports, "sport",
                                   "Invalid sport type"))
               \o ValidateParametersField(matchData)
               \o ValidateDateField(matchData, now)
               \o ValidateScoreField(matchData)
    IN  IF all = <<>> THEN <<>> ELSE <<Head(all)>>

\* The errors object of validateMatchData, its keys in insertion order.
validateMatchData(matchData, now) ==
    CheckField(validateRequired(matchData, "playerId"), "playerId",
               "Player ID is required")
    \o CheckField(validateRequired(matchData, "coachId"), "coachId",
               "Coach ID is required")
    \o (IF ~validateRequired(matchData, "sport")
        THEN <<ErrorEntry("sport", "Sport is required", <<>>)>>
        ELSE CheckField(matchData.sport \in SupportedSports, "sport",
                        "Invalid sport type"))
    \o ValidateParametersField(matchData)
    \o ValidateDateField(matchData, now)
    \o ValidateScoreField(matchData)

\* String(value) of one errors value inside Object.values(errors).join(', '):
\* a nested errors object prints as "[object Object]".
ValueText(entry) == IF entry.nested = <<>> THEN entry.message ELSE "[object Object]"

\* new Error(`${prefix}: ${Object.values(errors).join(', ')}`); fields keeps
\* the keys the values came from.
ValidationError(prefix, errors) ==
    [message |-> prefix, code |-> "",
     fields |-> [i \in 1..Len(errors) |-> errors[i].field],
     values |-> [i \in 1..Len(errors) |-> ValueText(errors[i])]]

\* ------------------------------------------- services/performanceCalculator.js
\* The scores are computed on exact rationals num/den; Math.round is applied
\* to the clamped total.
RoundUnclamped(num, den) == MathRound(Max(0, num), den)

ClampRound(num, den) == MathRound(Min(100 * den, Max(0, num)), den)

calculateCricketScore(params) ==
    LET runs == params.runsScored
        balls == params.ballsFaced
        wkts == params.wicketsTaken
        overs == params.oversBowled
        \* battingScore = batNum / batDen
        batDen == IF balls > 0 THEN balls ELSE 1
        batNum == IF balls > 0 THEN Min(100 * balls, runs * 100)
                  ELSE IF runs > 0 THEN Min(100, runs * 10) ELSE 0
        \* bowlingScore = bowlNum / bowlDen
        bowlDen == IF overs > 0 THEN overs ELSE 1
        bowlNum == IF overs > 0 THEN Min(100 * overs, wkts * 100)
                   ELSE IF wkts > 0 THEN Min(100, wkts * 25) ELSE 0
        fieldingScore == Min(100, params.catches * 20)
        \* totalScore = 0.5 batting + 0.3 bowling + 0.2 fielding, over 10 batDen bowlDen
        num == 5 * batNum * bowlDen + 3 * bowlNum * batDen
               + 2 * fieldingScore * batDen * bowlDen
    IN  ClampRound(num, 10 * batDen * bowlDen)

calculateFootballScore(params) ==
    LET m == Max(params.minutesPlayed, 1)
        \* every term over the denominator 100 m
        goalScore == params.goalsScored * 90 * 20 * 100
        assistScore == params.assists * 90 * 15 * 100
        passAccuracy == Min(30 * 100 * m, params.passesCompleted * 30 * 100)
        defenseScore == Min(20 * 100 * m, params.tacklesMade * 90 * 22)
    IN  ClampRound(goalScore + assistScore + passAccuracy + defenseScore, 100 * m)

calculateBasketballScore(params) ==
    LET m == Max(params.minutesPlayed, 1)
        \* every term over the denominator 1000 m
        pointScore == Min(40 * 1000 * m, params.pointsScored * 48 * 830)
        reboundScore == Min(25 * 1000 * m, params.rebounds * 48 * 2500)
        assistScore == Min(25 * 1000 * m, params.assists * 48 * 3125)
        stealScore == Min(10 * 1000 * m, params.steals * 48 * 5000)
    IN  ClampRound(pointScore + reboundScore + assistScore + stealScore, 1000 * m)

calculatePerformanceScore(sport, parameters) ==
    CASE sport = "cricket" -> calculateCricketScore(parameters)
      [] sport = "football" -> calculateFootballScore(parameters)
      [] sport = "basketball" -> calculateBasketballScore(parameters)

\* ----------------------------------------------------- models/matchData.js
\* createMatchData keeps only the fields it destructures (a playerEmail the
\* caller passed is dropped) and fills in the defaults of those missing;
\* id, createdAt and updatedAt are left to the store.
createMatchData(data, now) ==
    [playerId |-> data.playerId,
     coachId |-> data.coachId,
     sport |-> data.sport,
     parameters |-> data.parameters,
     date |-> IF "date" \in DOMAIN data THEN data.date ELSE now,
     calculatedScore |-> IF "calculatedScore" \in DOMAIN data
                         THEN data.calculatedScore ELSE Null,
     suggestions |-> IF "suggestions" \in DOMAIN data THEN data.suggestions ELSE <<>>,
     restRecommendation |-> IF "restRecommendation" \in DOMAIN data
                            THEN data.restRecommendation ELSE Null]

\* createSuggestion(type, message, priority); createdAt is left out.
createSuggestion(type, message, priority) ==
    [type |-> type, message |-> message, priority |-> priority]

\* createRestRecommendation(hours, description): the description is a
\* template with the hours written into it.
createRestRecommendation(hours, description) ==
    [hours |-> hours, description |-> [text |-> description, hours |-> hours]]

\* ------------------------------------------------ services/suggestionEngine.js
\* random is Math.floor(Math.random() * 24); Math.floor(Math.random() * 12)
\* of the same draw is random \div 2.
RestWithoutBands(score, random) ==
    createRestRecommendation(random + 24, "")

generateRestRecommendation(score, random) ==
    IF score < 60
    THEN createRestRecommendation(random + 48,
             "Your performance indicates fatigue. Take ${hours} hours of complete rest to recover properly. Focus on sleep, hydration, and light stretching.")
    ELSE IF score >= 60 /\ score < 80
    THEN createRestRecommendation(random + 24,
             "Good performance but room for improvement. Take ${hours} hours of moderate rest. Light activities like walking or yoga are beneficial.")
    ELSE createRestRecommendation((random \div 2) + 12,
             "Excellent performance! Take ${hours} hours of light rest. You can engage in light training or active recovery activities.")

\* if (a) push(x) else if (b) push(y)
PushEither(a, x, b, y) == IF a THEN <<x>> ELSE IF b THEN <<y>> ELSE <<>>

generateCricketSuggestions(parameters, score) ==
    LET runsScored == parameters.runsScored
        ballsFaced == parameters.ballsFaced
        wicketsTaken == parameters.wicketsTaken
        catches == parameters.catches
        oversBowled == parameters.oversBowled
    IN  (IF ballsFaced > 0
         THEN PushEither(runsScored * 100 < 80 * ballsFaced,
                  createSuggestion("technique", "Work on batting technique and shot selection. Practice in the nets to improve strike rate.", "high"),
                  runsScored * 100 > 150 * ballsFaced,
                  createSuggestion("technique", "Excellent strike rate! Focus on maintaining consistency and playing according to match situation.", "low"))
         ELSE <<>>)
        \o (IF oversBowled > 0
            THEN PushEither(5 * wicketsTaken < oversBowled,
                     createSuggestion("technique", "Focus on bowling accuracy and variation. Practice different deliveries and work on line and length.", "high"),
                     2 * wicketsTaken > oversBowled,
                     createSuggestion("technique", "Great bowling performance! Continue working on consistency and developing new variations.", "low"))
            ELSE <<>>)
        \o PushEither(catches = 0 /\ score < 70,
               createSuggestion("technique", "Work on fielding skills. Practice catching drills and improve positioning.", "medium"),
               catches >= 2,
               createSuggestion("technique", "Excellent fielding! Your catching ability is a valuable asset to the team.", "low"))

generateFootballSuggestions(parameters, score) ==
    LET goalsScored == parameters.goalsScored
        assists == parameters.assists
        passesCompleted == parameters.passesCompleted
        tacklesMade == parameters.tacklesMade
        safeMinutesPlayed == Max(parameters.minutesPlayed, 1)
    IN  PushEither(goalsScored = 0 /\ score < 70,
            createSuggestion("technique", "Work on finishing skills. Practice shooting from different angles and distances.", "high"),
            goalsScored >= 2,
            createSuggestion("technique", "Great goal-scoring performance! Continue working on movement in the box.", "low"))
        \o PushEither(2 * passesCompleted < safeMinutesPlayed,
               createSuggestion("technique", "Improve passing accuracy and frequency. Work on short and long passing drills.", "medium"),
               passesCompleted > safeMinutesPlayed,
               createSuggestion("technique", "Excellent passing game! Focus on creating more scoring opportunities.", "low"))
        \o PushEither(20 * tacklesMade < safeMinutesPlayed /\ score < 70,
               createSuggestion("technique", "Work on defensive positioning and tackling technique. Practice 1v1 defending.", "medium"),
               10 * tacklesMade > safeMinutesPlayed,
               createSuggestion("technique", "Strong defensive performance! Continue working on reading the game.", "low"))
        \o PushEither(assists = 0 /\ goalsScored = 0 /\ score < 60,
               createSuggestion("technique", "Focus on creating chances for teammates. Work on vision and through balls.", "high"),
               FALSE, <<>>)

generateBasketballSuggestions(parameters, score) ==
    LET pointsScored == parameters.pointsScored
        rebounds == parameters.rebounds
        assists == parameters.assists
        steals == parameters.steals
        safeMinutesPlayed == Max(parameters.minutesPlayed, 1)
    IN  PushEither(2 * pointsScored < safeMinutesPlayed,
            createSuggestion("technique", "Work on shooting technique and shot selection. Practice free throws and mid-range shots.", "high"),
            pointsScored > safeMinutesPlayed,
            createSuggestion("technique", "Excellent scoring efficiency! Focus on creating shots for teammates as well.", "low"))
        \o PushEither(5 * rebounds < safeMinutesPlayed,
               createSuggestion("technique", "Improve rebounding by working on positioning and boxing out. Practice timing jumps.", "medium"),
               5 * rebounds > 2 * safeMinutesPlayed,
               createSuggestion("technique", "Great rebounding! Your presence in the paint is valuable to the team.", "low"))
        \o PushEither(10 * assists < safeMinutesPlayed /\ score < 70,
               createSuggestion("technique", "Work on court vision and passing skills. Practice different types of passes.", "medium"),
               4 * assists > safeMinutesPlayed,
               createSuggestion("technique", "Excellent playmaking! Continue developing leadership on the court.", "low"))
        \o PushEither(50 * steals < safeMinutesPlayed /\ score < 70,
               createSuggestion("technique", "Focus on defensive anticipation and active hands. Work on reading passing lanes.", "medium"),
               25 * steals > 2 * safeMinutesPlayed,
               createSuggestion("technique", "Great defensive instincts! Balance aggression with smart positioning.", "low"))

generateTrainingSuggestions(score, sport, parameters) ==
    <<IF score >= 90
      THEN createSuggestion("general", "Outstanding performance! Maintain your current training routine and focus on consistency.", "low")
      ELSE IF score >= 80
      THEN createSuggestion("general", "Very good performance! Fine-tune specific skills to reach the next level.", "medium")
      ELSE IF score >= 70
      THEN createSuggestion("general", "Good performance with room for improvement. Focus on consistent practice.", "medium")
      ELSE IF score >= 60
      THEN createSuggestion("general", "Average performance. Identify weak areas and dedicate extra practice time.", "high")
      ELSE createSuggestion("general", "Performance needs improvement. Consider working with a coach on fundamentals.", "high")>>
    \o CASE sport = "cricket" -> generateCricketSuggestions(parameters, score)
         [] sport = "football" -> generateFootballSuggestions(parameters, score)
         [] sport = "basketball" -> generateBasketballSuggestions(parameters, score)
         [] OTHER -> <<>>

\* (no slicing: the whole array)
SliceWhole(arr, from, to) == arr

\* Array.prototype.slice(from, to) with negative indexes counted from the
\* end; the result holds the elements from + 1 .. to of the 1-based sequence.
Slice(arr, from, to) ==
    LET n == Len(arr)
        lo == IF from < 0 THEN Max(n + from, 0) ELSE Min(from, n)
        hi == IF to < 0 THEN Max(n + to, 0) ELSE Min(to, n)
    IN  IF hi <= lo THEN <<>> ELSE SubSeq(arr, lo + 1, hi)

\* The averages are IEEE doubles.  sum / length is exact unless length is 3
\* and the sum is no multiple of 3; then the nearest double is off by a
\* third of its unit in the last place, up or down according to the binary
\* digit the rounding falls on.  RoundingError is that error in units of
\* 2^-54 / 3: with 2^(k-2) <= sum/3 < 2^(k-1) it is +-2^k.
RoundingError(sum, length) ==
    IF length # 3 \/ sum % 3 = 0
    THEN 0
    ELSE LET k == CHOOSE j \in 0..8 : 3 * 2^j <= 4 * sum /\ 4 * sum < 3 * 2^(j + 1)
             c == IF k % 2 = 0 THEN 1 ELSE 2
         IN  IF (sum * c) % 3 = 1 THEN 0 - 2^k ELSE 2^k

\* The exact comparison of the difference of the averages with a threshold.
ExactDifference(recent, older, threshold) ==
    LET num == SumSeq(recent) * Len(older) - SumSeq(older) * Len(recent)
        den == Len(recent) * Len(older)
    IN  IF num > threshold * den THEN 1
        ELSE IF num < threshold * den THEN 0 - 1
        ELSE 0

\* (olderAvg - recentAvg compared with the threshold)
CompareOlderFirst(recent, older, threshold) ==
    ExactDifference(older, recent, threshold)

\* difference = recentAvg - olderAvg compared with a threshold (5 or 10, or
\* their negatives): 1 if greater, -1 if less, 0 if equal.  Where the exact
\* averages differ by the threshold, the doubles differ from it by the
\* difference of their rounding errors, rounded to the unit in the last
\* place of the threshold (48 units for 5, 96 for 10; a tie goes to the
\* threshold, whose last digit is even).
CompareDifference(recent, older, threshold) ==
    LET exact == ExactDifference(recent, older, threshold)
        eps == RoundingError(SumSeq(recent), Len(recent))
               - RoundingError(SumSeq(older), Len(older))
        ulp == IF threshold \in (0 - 7)..7 THEN 48 ELSE 96
    IN  IF exact # 0 THEN exact
        ELSE IF 2 * eps > ulp THEN 1
        ELSE IF 2 * eps < 0 - ulp THEN 0 - 1
        ELSE 0

generateTrendBasedSuggestions(recentScores, sport) ==
    IF Len(recentScores) < 2 THEN <<>>
    ELSE LET recent == Slice(recentScores, 0 - 3, Len(recentScores))
             older == Slice(recentScores, 0 - 6, 0 - 3)
         IN  IF Len(older) = 0 THEN <<>>
             ELSE <<IF CompareDifference(recent, older, 10) > 0
                    THEN createSuggestion("general", "Excellent improvement trend! Your hard work is paying off. Maintain this momentum.", "low")
                    ELSE IF CompareDifference(recent, older, 5) > 0
                    THEN createSuggestion("general", "Good improvement trend! Continue your current training approach.", "low")
                    ELSE IF CompareDifference(recent, older, 0 - 10) < 0
                    THEN createSuggestion("general", "Performance has declined recently. Consider reviewing your training routine and getting adequate rest.", "high")
                    ELSE IF CompareDifference(recent, older, 0 - 5) < 0
                    THEN createSuggestion("general", "Slight decline in performance. Focus on fundamentals and ensure proper recovery.", "medium")
                    ELSE createSuggestion("general", "Consistent performance! Consider adding new challenges to break through plateaus.", "medium")>>

\* The suggestion package; score, sport and generatedAt are not used by
\* the caller.
generateComprehensiveSuggestions(score, sport, parameters, recentScores, random) ==
    [restRecommendation |-> generateRestRecommendation(score, random),
     suggestions |-> generateTrainingSuggestions(score, sport, parameters)
                     \o generateTrendBasedSuggestions(recentScores, sport)]

\* ---------------------------------------------------- services/matchService.js
\* updatePlayerStatistics with Math.floor in place of Math.round.
NewPlayerStatsTruncated(player, newScore, now) ==
    [currentScore |-> newScore,
     matchCount |-> player.matchCount + 1,
     totalScore |-> player.totalScore + newScore,
     averageScore |-> ((player.totalScore + newScore) * 100) \div (player.matchCount + 1),
     lastMatchDate |-> Some(now)]

\* updatePlayerStatistics dividing by the match count it read.
NewPlayerStatsStaleCount(player, newScore, now) ==
    [currentScore |-> newScore,
     matchCount |-> player.matchCount + 1,
     totalScore |-> player.totalScore + newScore,
     averageScore |-> MathRound((player.totalScore + newScore) * 100,
                                Max(player.matchCount, 1)),
     lastMatchDate |-> Some(now)]

\* The statistics object written by updatePlayerStatistics.
NewPlayerStats(player, newScore, now) ==
    LET newMatchCount == player.matchCount + 1
        newTotalScore == player.totalScore + newScore
    IN  [currentScore |-> newScore,
         matchCount |-> newMatchCount,
         totalScore |-> newTotalScore,
         averageScore |-> MathRound(newTotalScore * 100, newMatchCount),
         lastMatchDate |-> Some(now)]

\* recalculatePlayerStatistics taking the last element as the latest match.
RecalculatedStatsOldest(playerMatches) ==
    IF Len(playerMatches) = 0
    THEN [currentScore |-> 0, matchCount |-> 0, totalScore |-> 0,
          averageScore |-> 0, lastMatchDate |-> Null]
    ELSE LET totalScore == SumSeq([i \in 1..Len(playerMatches) |->
                                     playerMatches[i].calculatedScore])
             lastMatch == playerMatches[Len(playerMatches)]
         IN  [currentScore |-> lastMatch.calculatedScore,
              matchCount |-> Len(playerMatches),
              totalScore |-> totalScore,
              averageScore |-> MathRound(totalScore * 100, Len(playerMatches)),
              lastMatchDate |-> Some(lastMatch.date)]

\* The statistics object written by recalculatePlayerStatistics from the
\* result of getPlayerMatches (newest first).
RecalculatedStats(playerMatches) ==
    IF Len(playerMatches) = 0
    THEN [currentScore |-> 0, matchCount |-> 0, totalScore |-> 0,
          averageScore |-> 0, lastMatchDate |-> Null]
    ELSE LET validScores == [i \in 1..Len(playerMatches) |->
                                playerMatches[i].calculatedScore]
             totalScore == SumSeq(validScores)
             lastMatch == playerMatches[1]
         IN  [currentScore |-> lastMatch.calculatedScore,
              matchCount |-> Len(playerMatches),
              totalScore |-> totalScore,
              averageScore |-> MathRound(totalScore * 100, Len(validScores)),
              lastMatchDate |-> Some(lastMatch.date)]

\* Array.prototype.sort with (a, b) => bTime - aTime: stable, newest first.
RECURSIVE InsertByDate(_, _)
InsertByDate(sorted, m) ==
    IF sorted = <<>> THEN <<m>>
    ELSE IF Head(sorted).date >= m.date
         THEN <<Head(sorted)>> \o InsertByDate(Tail(sorted), m)
         ELSE <<m>> \o sorted

RECURSIVE SortByDateDesc(_)
SortByDateDesc(docs) ==
    IF docs = <<>> THEN <<>>
    ELSE InsertByDate(SortByDateDesc(SubSeq(docs, 1, Len(docs) - 1)), docs[Len(docs)])

RecentLimit == 10

\* matches.sort(...).slice(0, limit)
RecentOf(docs, limit) ==
    LET sorted == SortByDateDesc(docs)
    IN  SubSeq(sorted, 1, Min(limit, Len(sorted)))

ScoresOf(docs) == [i \in 1..Len(docs) |-> docs[i].calculatedScore]

\* A catch block that throws an error of its own.
RethrowWrapped(error) ==
    [message |-> "Failed to submit match data", code |-> "", fields |-> <<>>,
     values |-> <<>>]

\* catch (error) { console.error(...); throw error; }
Rethrow(error) == error

\* { ...b, ...a }: the spread written the other way round.
SpreadFirstWins(a, b) ==
    [f \in DOMAIN a \cup DOMAIN b |-> IF f \in DOMAIN a THEN a[f] ELSE b[f]]

\* { ...a, ...b }
Spread(a, b) ==
    [f \in DOMAIN a \cup DOMAIN b |-> IF f \in DOMAIN b THEN b[f] ELSE a[f]]

\* The object submitMatchData hands to firestoreService.create.
CompleteMatchData(matchData, calculatedScore, recentScores, random, now) ==
    LET suggestionPackage ==
            generateComprehensiveSuggestions(calculatedScore, matchData.sport,
                                             matchData.parameters, recentScores, random)
    IN  createMatchData(
            Spread(matchData,
                   [calculatedScore |-> calculatedScore,
                    suggestions |->
                        [i \in 1..Len(suggestionPackage.suggestions) |->
                            suggestionPackage.suggestions[i].message],
                    restRecommendation |-> Some(suggestionPackage.restRecommendation)]),
            now)

\* ------------------------------------------------ services/firestoreService.js
Error(message) == [message |-> message, code |-> "", fields |-> <<>>, values |-> <<>>]

\* The failures of the Firestore client: a coded one and an uncoded one.
NativeErrors ==
    {[code |-> "unavailable", message |-> "Network error"],
     [code |-> "", message |-> "Firestore error"]}

NotFoundNative == [code |-> "not-found", message |-> "No document to update"]

handleFirestoreError(error) ==
    [message |-> CASE error.code = "unavailable" ->
                        "Service is currently unavailable. Please check your connection."
                   [] error.code = "not-found" -> "The requested data was not found."
                   [] OTHER -> error.message,
     code |-> error.code, fields |-> <<>>, values |-> <<>>]

\* getDocs without orderBy returns the documents by document id.
RECURSIVE DocsById(_)
DocsById(docs) ==
    IF docs = {} THEN <<>>
    ELSE LET first == CHOOSE d \in docs : \A e \in docs : d.id <= e.id
         IN  <<first>> \o DocsById(docs \ {first})

\* query(collection, [{field, '==', value}])
Query(collection, field, value) ==
    DocsById({d \in collection : d[field] = value})

\* updateDoc merges the given fields into the document.
MergeDoc(doc, data) ==
    [f \in DOMAIN doc \cup DOMAIN data |-> IF f \in DOMAIN data THEN data[f] ELSE doc[f]]

\* ============================================================ the state
VARIABLES
    now,        \* the clock (new Date())
    users,      \* 'users' collection: player id -> e-mail of the profile, "" if none
    players,    \* 'players' collection: player id -> Null or Some(aggregate document)
    matches,    \* 'matches' collection: set of match documents
    usedIds,    \* document ids addDoc has handed out
    calls,      \* the asynchronous matchService calls, by slot
    subscriptions, \* RealtimeService.subscriptions: id -> its watches' handles
    watches,    \* the store's onSnapshot listeners, in order of registration
    subscribers,   \* the callers of subscribeTo...: what their callback saw
    debounced,  \* the function debounceUpdates returned: its timer and calls
    offline,    \* OfflineProvider: connectivity, pendingActions and processing runs
    probe       \* the last pure function applied: its name, input and output

realtimeVars == <<subscriptions, watches, subscribers, debounced, offline>>

vars == <<now, users, players, matches, usedIds, calls, realtimeVars, probe>>

\* ------------------------------------------------------------- inputs
CricketGood == [runsScored |-> 45, ballsFaced |-> 30, wicketsTaken |-> 2,
                catches |-> 1, oversBowled |-> 4]
FootballGood == [goalsScored |-> 3, assists |-> 0, passesCompleted |-> 20,
                 tacklesMade |-> 0, minutesPlayed |-> 90]
BasketballGood == [pointsScored |-> 35, rebounds |-> 2, assists |-> 1,
                   steals |-> 0, minutesPlayed |-> 36]
\* a negative value and three fields missing
CricketBad == [runsScored |-> 0 - 10, ballsFaced |-> 0]

\* The matchData objects callers pass to submitMatchData, one call at a
\* time: valid ones, and the invalid ones of the tests.
MatchInputs ==
    {[playerId |-> "p1", coachId |-> Coach, sport |-> "cricket",
      parameters |-> CricketGood, date |-> d] : d \in {1, MaxTime}}
    \cup {[playerId |-> "p1", coachId |-> Coach, sport |-> "basketball",
           parameters |-> BasketballGood, date |-> MaxTime],
          [playerId |-> "p2", coachId |-> Coach, sport |-> "football",
           parameters |-> FootballGood, date |-> 1]}
    \cup {[playerId |-> "", coachId |-> Coach, sport |-> "tennis",
           parameters |-> <<>>, date |-> MaxTime + 1],
          [playerId |-> "p1", coachId |-> Coach, sport |-> "cricket",
           parameters |-> CricketBad, date |-> 1]}

\* The matchData objects of the interleaved runs.
RaceInputs ==
    {[playerId |-> "p1", coachId |-> Coach, sport |-> "cricket",
      parameters |-> CricketGood, date |-> 1],
     [playerId |-> "p1", coachId |-> Coach, sport |-> "basketball",
      parameters |-> BasketballGood, date |-> MaxTime],
     [playerId |-> "p2", coachId |-> Coach, sport |-> "cricket",
      parameters |-> CricketGood, date |-> MaxTime]}

\* every field present, one above its maximum
CricketOutOfRange == [CricketGood EXCEPT !.runsScored = 501]

SportBags ==
    {<<"cricket", CricketGood>>, <<"football", FootballGood>>,
     <<"basketball", BasketballGood>>, <<"cricket", CricketBad>>,
     <<"cricket", CricketOutOfRange>>,
     <<"football", CricketGood>>, <<"tennis", CricketGood>>, <<"", <<>>>>}

\* A wider set of matchData objects, most of them invalid.
WideInputs ==
    {[playerId |-> pid, coachId |-> cid, sport |-> sb[1], parameters |-> sb[2],
      date |-> d] : pid \in {"p1", ""}, cid \in {Coach, ""},
                    sb \in SportBags, d \in {1, MaxTime + 1}}
    \cup {[playerId |-> pid, coachId |-> Coach, sport |-> sb[1], parameters |-> sb[2]] :
             pid \in {"p1", ""}, sb \in SportBags}
    \cup {[playerId |-> pid, coachId |-> Coach, sport |-> sp, date |-> d] :
             pid \in {"p1", ""}, sp \in {"cricket", "tennis"}, d \in {1, MaxTime + 1}}
    \cup {[playerId |-> "p1", coachId |-> Coach, sport |-> "cricket",
           parameters |-> CricketGood, date |-> 1, calculatedScore |-> cs] :
             cs \in {7, 150}}

\* ------------------------------------------------------------- calls
IdleCall ==
    [op |-> "none", pc |-> "idle", input |-> <<>>, score |-> 0,
     recentScores |-> <<>>, matchId |-> Null, playerId |-> "", stats |-> Null,
     result |-> [status |-> "none", error |-> Null, id |-> Null],
     log |-> {}, raised |-> Null, before |-> Null]

\* pc values: the firestoreService call the invocation is awaiting.
SubmitAwaits == {"s_getUserProfile", "s_queryEmail", "s_queryId", "s_create",
                 "s_readPlayer", "s_updateStats"}
DeleteAwaits == {"d_readMatch", "d_delete", "d_getUserProfile", "d_queryEmail",
                 "d_queryId", "d_updateStats"}

InFlight(p) == calls[p].pc \in SubmitAwaits \cup DeleteAwaits

\* The call has returned or thrown: its locals are gone; what the caller got
\* (result) and what the call did to the store (log, raised) stay on record.
Returned(call, result) ==
    [IdleCall EXCEPT !.op = call.op, !.input = call.input, !.pc = "done",
                     !.playerId = call.playerId, !.matchId = call.matchId,
                     !.before = call.before,
                     !.result = result, !.log = call.log, !.raised = call.raised]

Failed(call, error) ==
    Returned(call, [status |-> "error", error |-> Some(Rethrow(error)), id |-> Null])

Succeeded(call, id) ==
    Returned(call, [status |-> "ok", error |-> Null, id |-> id])

Await(call, pc, method) ==
    [call EXCEPT !.pc = pc, !.log = @ \cup {method}]

EmailOf(p) == IF p = "p1" THEN "p1@mail" ELSE "p2@mail"

\* the statistics of the document assignPlayerToCoach creates
NewPlayerData ==
    [currentScore |-> 0, matchCount |-> 0, averageScore |-> 0, totalScore |-> 0]

\* submits that passed validation and have not yet created their document
PendingCreates ==
    Cardinality({q \in Procs : calls[q].pc \in
                    {"s_getUserProfile", "s_queryEmail", "s_queryId", "s_create"}})

\* new RealtimeService(): no subscription; nobody has subscribed, no store
\* listener is registered and no debounced function has been called.
IdleSubscriber == [id |-> Null, invocations |-> 0, last |-> Null,
                  unsubscribed |-> FALSE, late |-> FALSE]

NoRealtime ==
    /\ subscriptions = <<>>
    /\ watches = <<>>
    /\ subscribers = [k \in Subscribers |-> IdleSubscriber]
    /\ debounced = [timeoutId |-> Null, events |-> <<>>]
    /\ offline = [isOnline |-> TRUE, wasOffline |-> FALSE, pendingActions |-> <<>>,
                  added |-> 0, runs |-> <<>>, succeeded |-> <<>>]

Init ==
    /\ now = MaxTime
    /\ users = [p \in Players |-> IF p = "p1" THEN EmailOf(p) ELSE ""]
    /\ players = [p \in Players |->
                    IF p = "p1"
                    THEN Some(NewPlayerData)
                    ELSE Null]
    /\ matches = {}
    /\ usedIds = {}
    /\ calls = [p \in Procs |-> IdleCall]
    /\ NoRealtime
    /\ probe = Null

\* A store that already holds n matches of p1, submitted one after the
\* other (cricket and basketball in turn), and the aggregate they left.
HistoryInput(i) ==
    [playerId |-> "p1", coachId |-> Coach,
     sport |-> IF i % 2 = 1 THEN "cricket" ELSE "basketball",
     parameters |-> IF i % 2 = 1 THEN CricketGood ELSE BasketballGood,
     date |-> IF i % 2 = 1 THEN 1 ELSE MaxTime]

HistoryScore(i) ==
    calculatePerformanceScore(HistoryInput(i).sport, HistoryInput(i).parameters)

RECURSIVE HistoryDocs(_)
HistoryDocs(n) ==
    IF n = 0 THEN {}
    ELSE LET prior == HistoryDocs(n - 1)
             recentScores ==
                 ScoresOf(RecentOf(Query(prior, "playerId", "p1"), RecentLimit))
         IN  prior \cup
             {MergeDoc(CompleteMatchData(HistoryInput(n), HistoryScore(n),
                                         recentScores, 0, MaxTime),
                       [id |-> 0 - n, playerEmail |-> ""])}

RECURSIVE HistoryStats(_)
HistoryStats(n) ==
    IF n = 0 THEN NewPlayerData
    ELSE MergeDoc(HistoryStats(n - 1),
                  NewPlayerStats(HistoryStats(n - 1), HistoryScore(n), MaxTime))

InitHistory ==
    \E n \in 0..MaxHistory :
        /\ now = MaxTime
        /\ users = [p \in Players |-> IF p = "p1" THEN EmailOf(p) ELSE ""]
        /\ players = [p \in Players |->
                        IF p = "p1" THEN Some(HistoryStats(n)) ELSE Null]
        /\ matches = HistoryDocs(n)
        /\ usedIds = {}
        /\ calls = [p \in Procs |-> IdleCall]
        /\ NoRealtime
        /\ probe = Null

\* ----------------------------------------------------------- submitMatchData
\* The call itself: validation, score, and the first store request.
SubmitMatchData(p, matchData) ==
    /\ ~InFlight(p)
    /\ LET matchValidation == validateMatchData(matchData, now)
           fresh == [IdleCall EXCEPT !.op = "submit", !.input = matchData]
       IN  IF matchValidation # <<>>
           THEN calls' = [calls EXCEPT ![p] =
                    Failed(fresh, ValidationError("Invalid match data", matchValidation))]
           ELSE LET paramValidation ==
                        validateSportParameters(matchData.sport, matchData.parameters)
                IN  IF paramValidation # <<>>
                    THEN calls' = [calls EXCEPT ![p] =
                             Failed(fresh, ValidationError("Invalid sport parameters",
                                                           paramValidation))]
                    ELSE /\ Cardinality(usedIds) + PendingCreates < MaxMatches
                         /\ calls' = [calls EXCEPT ![p] =
                               Await([fresh EXCEPT
                                        !.score = calculatePerformanceScore(
                                                     matchData.sport, matchData.parameters),
                                        !.playerId = matchData.playerId,
                                        !.before = players[matchData.playerId]],
                                     "s_getUserProfile", "read users")]
    /\ UNCHANGED <<now, users, players, matches, usedIds, realtimeVars, probe>>

\* getPlayerRecentMatches: the profile arrives.
RecentProfileResolved(p) ==
    /\ calls[p].pc = "s_getUserProfile"
    /\ calls' = [calls EXCEPT ![p] =
          IF users[calls[p].playerId] = ""
          THEN Await([@ EXCEPT !.recentScores = <<>>], "s_create", "create matches")
          ELSE Await(@, "s_queryEmail", "query matches")]
    /\ UNCHANGED <<now, users, players, matches, usedIds, realtimeVars, probe>>

\* getPlayerRecentMatches: the result of the query by playerEmail arrives.
RecentEmailQueryResolved(p) ==
    /\ calls[p].pc = "s_queryEmail"
    /\ LET found == Query(matches, "playerEmail", users[calls[p].playerId])
       IN  calls' = [calls EXCEPT ![p] =
              IF Len(found) = 0
              THEN Await(@, "s_queryId", "query matches")
              ELSE Await([@ EXCEPT !.recentScores = ScoresOf(RecentOf(found, RecentLimit))],
                         "s_create", "create matches")]
    /\ UNCHANGED <<now, users, players, matches, usedIds, realtimeVars, probe>>

\* getPlayerRecentMatches: the result of the fallback query by playerId arrives.
RecentIdQueryResolved(p) ==
    /\ calls[p].pc = "s_queryId"
    /\ LET found == Query(matches, "playerId", calls[p].playerId)
       IN  calls' = [calls EXCEPT ![p] =
              Await([@ EXCEPT !.recentScores = ScoresOf(RecentOf(found, RecentLimit))],
                    "s_create", "create matches")]
    /\ UNCHANGED <<now, users, players, matches, usedIds, realtimeVars, probe>>

\* firestoreService.create('matches', completeMatchData) stores the document.
CreateResolved(p, random) ==
    /\ calls[p].pc = "s_create"
    /\ \E id \in MatchIds \ usedIds :
          /\ matches' = matches \cup
                {MergeDoc(CompleteMatchData(calls[p].input, calls[p].score,
                                            calls[p].recentScores, random, now),
                          [id |-> id, playerEmail |-> ""])}
          /\ usedIds' = usedIds \cup {id}
          /\ calls' = [calls EXCEPT ![p] =
                Await([@ EXCEPT !.matchId = Some(id)], "s_readPlayer", "read players")]
    /\ UNCHANGED <<now, users, players, realtimeVars, probe>>

\* updatePlayerStatistics returning quietly when the player is missing.
ReadPlayerSkipsMissing(p) ==
    /\ calls[p].pc = "s_readPlayer"
    /\ LET player == players[calls[p].playerId]
       IN  calls' = [calls EXCEPT ![p] =
              IF player = Null
              THEN Succeeded(@, calls[p].matchId)
              ELSE Await([@ EXCEPT !.stats =
                             Some(NewPlayerStats(player[1], calls[p].score, now))],
                         "s_updateStats", "update players")]
    /\ UNCHANGED <<now, users, players, matches, usedIds, realtimeVars, probe>>

\* updatePlayerStatistics: the players document arrives.
ReadPlayerResolved(p) ==
    /\ calls[p].pc = "s_readPlayer"
    /\ LET player == players[calls[p].playerId]
       IN  calls' = [calls EXCEPT ![p] =
              IF player = Null
              THEN Failed(@, Error("Player not found"))
              ELSE Await([@ EXCEPT !.stats =
                             Some(NewPlayerStats(player[1], calls[p].score, now))],
                         "s_updateStats", "update players")]
    /\ UNCHANGED <<now, users, players, matches, usedIds, realtimeVars, probe>>

\* firestoreService throws handleFirestoreError(native) into the awaiting call.
Thrown(call, native) ==
    Failed([call EXCEPT !.raised = Some(handleFirestoreError(native))],
           handleFirestoreError(native))

\* updatePlayerStatistics: updatePlayerStats writes; submitMatchData returns.
UpdateStatsResolved(p) ==
    /\ calls[p].pc = "s_updateStats"
    /\ IF players[calls[p].playerId] = Null
       THEN /\ calls' = [calls EXCEPT ![p] = Thrown(@, NotFoundNative)]
            /\ UNCHANGED players
       ELSE /\ players' = [players EXCEPT ![calls[p].playerId] =
                              Some(MergeDoc(@[1], calls[p].stats[1]))]
            /\ calls' = [calls EXCEPT ![p] = Succeeded(@, calls[p].matchId)]
    /\ UNCHANGED <<now, users, matches, usedIds, realtimeVars, probe>>

\* --------------------------------------------------------------- deleteMatch
DeleteMatch(p, matchId) ==
    /\ ~InFlight(p)
    /\ calls' = [calls EXCEPT ![p] =
          Await([IdleCall EXCEPT !.op = "delete", !.input = [matchId |-> matchId],
                                 !.matchId = Some(matchId)],
                "d_readMatch", "read matches")]
    /\ UNCHANGED <<now, users, players, matches, usedIds, realtimeVars, probe>>

\* getMatchById: the match document arrives.
ReadMatchResolved(p) ==
    /\ calls[p].pc = "d_readMatch"
    /\ LET found == {m \in matches : m.id = calls[p].matchId[1]}
       IN  calls' = [calls EXCEPT ![p] =
              IF found = {}
              THEN Failed(@, Error("Match not found"))
              ELSE LET match == CHOOSE m \in found : TRUE
                   IN  Await([@ EXCEPT !.playerId = match.playerId,
                                       !.before = players[match.playerId]],
                             "d_delete", "delete matches")]
    /\ UNCHANGED <<now, users, players, matches, usedIds, realtimeVars, probe>>

\* firestoreService.delete('matches', matchId) removes the document.
DeleteResolved(p) ==
    /\ calls[p].pc = "d_delete"
    /\ matches' = {m \in matches : m.id # calls[p].matchId[1]}
    /\ calls' = [calls EXCEPT ![p] = Await(@, "d_getUserProfile", "read users")]
    /\ UNCHANGED <<now, users, players, usedIds, realtimeVars, probe>>

\* getPlayerMatches: the profile arrives.
MatchesProfileResolved(p) ==
    /\ calls[p].pc = "d_getUserProfile"
    /\ calls' = [calls EXCEPT ![p] =
          IF users[calls[p].playerId] = ""
          THEN Await([@ EXCEPT !.stats = Some(RecalculatedStats(<<>>))],
                     "d_updateStats", "update players")
          ELSE Await(@, "d_queryEmail", "query matches")]
    /\ UNCHANGED <<now, users, players, matches, usedIds, realtimeVars, probe>>

\* getPlayerMatches without the fallback query by playerId.
MatchesEmailQueryNoFallback(p) ==
    /\ calls[p].pc = "d_queryEmail"
    /\ LET found == Query(matches, "playerEmail", users[calls[p].playerId])
       IN  calls' = [calls EXCEPT ![p] =
              Await([@ EXCEPT !.stats =
                        Some(RecalculatedStats(SortByDateDesc(found)))],
                    "d_updateStats", "update players")]
    /\ UNCHANGED <<now, users, players, matches, usedIds, realtimeVars, probe>>

\* getPlayerMatches: the result of the query by playerEmail arrives.
MatchesEmailQueryResolved(p) ==
    /\ calls[p].pc = "d_queryEmail"
    /\ LET found == Query(matches, "playerEmail", users[calls[p].playerId])
       IN  calls' = [calls EXCEPT ![p] =
              IF Len(found) = 0
              THEN Await(@, "d_queryId", "query matches")
              ELSE Await([@ EXCEPT !.stats =
                             Some(RecalculatedStats(SortByDateDesc(found)))],
                         "d_updateStats", "update players")]
    /\ UNCHANGED <<now, users, players, matches, usedIds, realtimeVars, probe>>

\* getPlayerMatches: the result of the fallback query by playerId arrives.
MatchesIdQueryResolved(p) ==
    /\ calls[p].pc = "d_queryId"
    /\ LET found == Query(matches, "playerId", calls[p].playerId)
       IN  calls' = [calls EXCEPT ![p] =
              Await([@ EXCEPT !.stats = Some(RecalculatedStats(SortByDateDesc(found)))],
                    "d_updateStats", "update players")]
    /\ UNCHANGED <<now, users, players, matches, usedIds, realtimeVars, probe>>

\* recalculatePlayerStatistics: updatePlayerStats writes; deleteMatch returns.
RecalcUpdateResolved(p) ==
    /\ calls[p].pc = "d_updateStats"
    /\ IF players[calls[p].playerId] = Null
       THEN /\ calls' = [calls EXCEPT ![p] = Thrown(@, NotFoundNative)]
            /\ UNCHANGED players
       ELSE /\ players' = [players EXCEPT ![calls[p].playerId] =
                              Some(MergeDoc(@[1], calls[p].stats[1]))]
            /\ calls' = [calls EXCEPT ![p] = Succeeded(@, Null)]
    /\ UNCHANGED <<now, users, matches, usedIds, realtimeVars, probe>>

\* ------------------------------------------------------------ environment
\* submitMatchData catching and logging a failure of the statistics update.
StoreFailureSwallowed(p, native) ==
    /\ InFlight(p)
    /\ calls' = [calls EXCEPT ![p] =
          IF calls[p].pc \in {"s_readPlayer", "s_updateStats"}
          THEN Succeeded([@ EXCEPT !.raised = Some(handleFirestoreError(native))],
                         calls[p].matchId)
          ELSE Thrown(@, native)]
    /\ UNCHANGED <<now, users, players, matches, usedIds, realtimeVars, probe>>

\* The store request a call is awaiting fails: the store is left unchanged.
StoreFailure(p, native) ==
    /\ InFlight(p)
    /\ calls' = [calls EXCEPT ![p] = Thrown(@, native)]
    /\ UNCHANGED <<now, users, players, matches, usedIds, realtimeVars, probe>>

\* The continuations of a submitMatchData call in slot p.
ResolveSubmit(p, draws) ==
    \/ RecentProfileResolved(p)
    \/ RecentEmailQueryResolved(p)
    \/ RecentIdQueryResolved(p)
    \/ \E random \in draws : CreateResolved(p, random)
    \/ ReadPlayerResolved(p)
    \/ UpdateStatsResolved(p)

\* The continuations of a deleteMatch call in slot p.
ResolveDelete(p) ==
    \/ ReadMatchResolved(p)
    \/ DeleteResolved(p)
    \/ MatchesProfileResolved(p)
    \/ MatchesEmailQueryResolved(p)
    \/ MatchesIdQueryResolved(p)
    \/ RecalcUpdateResolved(p)

\* A new call takes the first slot unless a call is in flight there.
FreeSlot(p) == p = "a" \/ InFlight("a")

\* One call at a time (slot "a" only): submissions and deletions, the store
\* failing at any request; the rest hours drawn are the least of their band.
Next ==
    \/ \E matchData \in MatchInputs : SubmitMatchData("a", matchData)
    \/ \E matchId \in MatchIds : DeleteMatch("a", matchId)
    \/ ResolveSubmit("a", LeastDraw)
    \/ ResolveDelete("a")
    \/ \E native \in NativeErrors : StoreFailure("a", native)

Spec == Init /\ [][Next]_vars

\* One call at a time, the store never failing.
NextNoFault ==
    \/ \E matchData \in MatchInputs : SubmitMatchData("a", matchData)
    \/ \E matchId \in MatchIds : DeleteMatch("a", matchId)
    \/ ResolveSubmit("a", RandomDraws)
    \/ ResolveDelete("a")

SpecNoFault == Init /\ [][NextNoFault]_vars

\* Concurrent submitMatchData calls only, the store never failing.
NextSubmits ==
    \/ \E p \in Procs, matchData \in RaceInputs :
          FreeSlot(p) /\ SubmitMatchData(p, matchData)
    \/ \E p \in Procs : ResolveSubmit(p, LeastDraw)

SpecSubmits == Init /\ [][NextSubmits]_vars

\* Submissions one at a time on top of a history, among them one whose
\* input carries a calculatedScore of its own.
RecordInputs ==
    {md \in MatchInputs : md.playerId = "p1" /\ md.sport \in SupportedSports
                            /\ md.parameters # CricketBad}
    \cup {[playerId |-> "p1", coachId |-> Coach, sport |-> "cricket",
           parameters |-> CricketGood, date |-> 1, calculatedScore |-> 7]}

NextRecord ==
    \/ \E matchData \in RecordInputs : SubmitMatchData("a", matchData)
    \/ ResolveSubmit("a", RandomDraws)

SpecRecord == InitHistory /\ [][NextRecord]_vars

\* A single submitMatchData call, over the wider inputs.
NextValidate ==
    \/ \E matchData \in WideInputs :
          calls["a"].pc = "idle" /\ SubmitMatchData("a", matchData)
    \/ ResolveSubmit("a", RandomDraws)
    \/ \E native \in NativeErrors : StoreFailure("a", native)

SpecValidate == Init /\ [][NextValidate]_vars

\* ------------------------------------------------------------ properties
\* What the properties read off the store, computed from the documents alone.
MatchesOf(pid) == {m \in matches : m.playerId = pid}

RECURSIVE SumScores(_)
SumScores(S) ==
    IF S = {} THEN 0
    ELSE LET m == CHOOSE x \in S : TRUE
         IN  m.calculatedScore + SumScores(S \ {m})

\* avg100 is total / count in hundredths, rounded to the nearest hundredth.
IsRoundedAverage(avg100, total, count) ==
    LET diff == avg100 * count - 100 * total
    IN  2 * (IF diff < 0 THEN 0 - diff ELSE diff) <= count

LatestOf(S) == {m \in S : \A x \in S : x.date <= m.date}

\* The call in the first slot has returned and nothing has run since.
DoneCall == calls["a"]
DoneSubmit == DoneCall.op = "submit" /\ DoneCall.pc = "done"
DoneDelete == DoneCall.op = "delete" /\ DoneCall.pc = "done"
SubmittedScore ==
    calculatePerformanceScore(DoneCall.input.sport, DoneCall.input.parameters)

\* C1: after a successful submitMatchData for a player whose aggregate
\* exists, with no other operation on that player in between, matchCount is
\* the old matchCount + 1, totalScore the old totalScore + the submitted
\* match's score, currentScore that score, and averageScore is
\* totalScore / matchCount rounded to two decimals.
C1_SubmitUpdatesAggregate ==
    (DoneSubmit /\ DoneCall.result.status = "ok" /\ DoneCall.before # Null) =>
        LET old == DoneCall.before[1]
            new == players[DoneCall.playerId][1]
        IN  /\ new.matchCount = old.matchCount + 1
            /\ new.totalScore = old.totalScore + SubmittedScore
            /\ new.currentScore = SubmittedScore
            /\ IsRoundedAverage(new.averageScore, new.totalScore, new.matchCount)

\* A third match has been added and the average is not a whole hundredth
\* of the total: 188 / 3.
C1_Witness ==
    /\ DoneSubmit /\ DoneCall.result.status = "ok" /\ DoneCall.before # Null
    /\ DoneCall.before[1].matchCount = 2
    /\ players[DoneCall.playerId][1].matchCount = 3
    /\ (players[DoneCall.playerId][1].totalScore * 100) % 3 = 2

\* C2: when several submitMatchData calls for the same player run
\* concurrently and all complete, no update is lost: the aggregate counts
\* every persisted match and its total is the sum of their scores.
C2_NoLostUpdate ==
    (\A p \in Procs : ~InFlight(p)) =>
        \A pid \in Players :
            players[pid] # Null =>
                /\ players[pid][1].matchCount = Cardinality(MatchesOf(pid))
                /\ players[pid][1].totalScore = SumScores(MatchesOf(pid))

C5_AverageInvariant ==
    \A pid \in Players :
        players[pid] # Null =>
            LET agg == players[pid][1]
            IN  IF agg.matchCount > 0
                THEN IsRoundedAverage(agg.averageScore, agg.totalScore, agg.matchCount)
                ELSE agg.averageScore = 0

\* Three matches counted, a call in flight, and an average that needed
\* rounding.
C5_Witness ==
    /\ InFlight("a")
    /\ \E pid \in Players :
          /\ players[pid] # Null
          /\ players[pid][1].matchCount = 3
          /\ (players[pid][1].totalScore * 100) % 3 # 0

\* The submission passed validation and the store threw nothing at it.
DoneSubmitUnfailed == DoneSubmit /\ DoneCall.log # {} /\ DoneCall.raised = Null
MatchPersisted ==
    DoneCall.matchId # Null /\ \E m \in matches : m.id = DoneCall.matchId[1]
ErrorMessage == DoneCall.result.error[1].message

\* C6 as the spec states it: the first match submitted for a player with no
\* PlayerAggregate creates the aggregate with matchCount 1, totalScore,
\* currentScore and averageScore equal to the score, and succeeds.
C6_FirstMatchCreatesAggregate ==
    (DoneSubmitUnfailed /\ DoneCall.before = Null) =>
        /\ DoneCall.result.status = "ok"
        /\ players[DoneCall.playerId] # Null
        /\ players[DoneCall.playerId][1].matchCount = 1
        /\ players[DoneCall.playerId][1].totalScore = SubmittedScore
        /\ players[DoneCall.playerId][1].currentScore = SubmittedScore
        /\ players[DoneCall.playerId][1].averageScore = 100 * SubmittedScore

\* C6: the first match submitted for a player with no PlayerAggregate is
\* persisted, no aggregate is created and the submission fails with
\* 'Player not found'; for a player whose aggregate exists with matchCount 0
\* the submission succeeds and leaves matchCount 1 and totalScore,
\* currentScore and averageScore equal to the score.
C6_FirstMatchNeedsAggregate ==
    /\ (DoneSubmitUnfailed /\ DoneCall.before = Null) =>
          /\ DoneCall.result.status = "error"
          /\ ErrorMessage = "Player not found"
          /\ MatchPersisted
          /\ players[DoneCall.playerId] = Null
    /\ (DoneSubmitUnfailed /\ DoneCall.before # Null) =>
          /\ DoneCall.result.status = "ok"
          /\ DoneCall.before[1].matchCount = 0 =>
                /\ players[DoneCall.playerId][1].matchCount = 1
                /\ players[DoneCall.playerId][1].totalScore = SubmittedScore
                /\ players[DoneCall.playerId][1].currentScore = SubmittedScore
                /\ players[DoneCall.playerId][1].averageScore = 100 * SubmittedScore

\* A submission for the player without aggregate has thrown.
C6_Witness ==
    /\ DoneSubmitUnfailed /\ DoneCall.before = Null
    /\ DoneCall.result.status = "error"
    /\ MatchPersisted

\* C7: when the statistics update of a submission fails after the match
\* record was persisted, submitMatchData throws that error, the record
\* stays in the store and the aggregate keeps the values it had.
C7_PartialFailureKeepsMatch ==
    (/\ DoneSubmit
     /\ DoneCall.matchId # Null
     /\ (DoneCall.raised # Null \/ DoneCall.before = Null)) =>
        /\ DoneCall.result.status = "error"
        /\ IF DoneCall.raised # Null
           THEN DoneCall.result.error = DoneCall.raised
           ELSE ErrorMessage = "Player not found"
        /\ MatchPersisted
        /\ players[DoneCall.playerId] = DoneCall.before

\* The store failed the update of an aggregate that already counted a match.
C7_Witness ==
    /\ DoneSubmit /\ DoneCall.matchId # Null /\ DoneCall.raised # Null
    /\ "update players" \in DoneCall.log
    /\ DoneCall.before # Null
    /\ DoneCall.before[1].matchCount = 1
    /\ Cardinality(MatchesOf(DoneCall.playerId)) = 2

\* C8: when persisting the match record fails, submitMatchData stops
\* there: the aggregate is neither read nor updated and the caller gets the
\* store's error as the store threw it.
C8_CreateFailureAborts ==
    (/\ DoneSubmit
     /\ "create matches" \in DoneCall.log
     /\ DoneCall.matchId = Null) =>
        /\ DoneCall.result.status = "error"
        /\ DoneCall.raised # Null
        /\ DoneCall.result.error = DoneCall.raised
        /\ "read players" \notin DoneCall.log
        /\ "update players" \notin DoneCall.log
        /\ players[DoneCall.playerId] = DoneCall.before

\* The create request of a submission for a player with aggregate failed
\* with the coded error.
C8_Witness ==
    /\ DoneSubmit /\ "create matches" \in DoneCall.log /\ DoneCall.matchId = Null
    /\ DoneCall.result.status = "error"
    /\ DoneCall.result.error[1].code = "unavailable"
    /\ DoneCall.before # Null

\* What is wrong with the submitted object, read off the object itself.
Input == DoneCall.input
Given(field) == field \in DOMAIN Input
BadPlayerId == ~Given("playerId") \/ Input.playerId = ""
BadCoachId == ~Given("coachId") \/ Input.coachId = ""
BadSport == ~Given("sport") \/ Input.sport \notin {"cricket", "football", "basketball"}
FutureDate == Given("date") /\ Input.date > now
BadParameters ==
    \/ ~Given("parameters")
    \/ Input.parameters \in {CricketBad, CricketOutOfRange}
    \/ (Given("sport") /\ Input.sport = "football" /\ Input.parameters = CricketGood)
BadScore ==
    Given("calculatedScore")
        /\ (Input.calculatedScore < 0 \/ Input.calculatedScore > 100)
Reported ==
    IF DoneCall.result.error = Null THEN {}
    ELSE {DoneCall.result.error[1].fields[i] :
             i \in 1..Len(DoneCall.result.error[1].fields)}
ReportedMessages ==
    {DoneCall.result.error[1].values[i] :
        i \in 1..Len(DoneCall.result.error[1].values)}
ValidationFailed ==
    /\ DoneCall.result.status = "error"
    /\ ErrorMessage \in {"Invalid match data", "Invalid sport parameters"}
StoreUntouched ==
    /\ matches = {}
    /\ usedIds = {}
    /\ players = [p \in Players |-> IF p = "p1" THEN Some(NewPlayerData) ELSE Null]
    /\ users = [p \in Players |-> IF p = "p1" THEN EmailOf(p) ELSE ""]

\* C9: a submitMatchData call that fails structural or sport-parameter
\* validation (a parameter out of range or missing, among others) attempts
\* no store operation: no match is created, no read or query is issued and
\* every aggregate is unchanged.
C9_ValidationBeforeStore ==
    DoneSubmit =>
        /\ (BadPlayerId \/ BadCoachId \/ BadSport \/ FutureDate \/ BadParameters
               \/ BadScore) =>
              /\ DoneCall.result.status = "error"
              /\ DoneCall.log = {}
              /\ StoreUntouched
        /\ ValidationFailed => (DoneCall.log = {} /\ StoreUntouched)

\* A submission whose only fault is one parameter above its maximum was
\* rejected.
C9_Witness ==
    /\ DoneSubmit
    /\ Given("parameters") /\ Input.parameters = CricketOutOfRange
    /\ ~BadPlayerId /\ ~BadCoachId /\ ~BadSport /\ ~FutureDate /\ ~BadScore
    /\ DoneCall.result.status = "error"
    /\ DoneCall.log = {}

\* C10: an input dated in the future, with an unsupported sport and an
\* empty playerId is rejected with the three violations (playerId, sport,
\* date) reported together; in general the validation error names every
\* violated field, not only the first found.
C10_AllViolationsReported ==
    DoneSubmit =>
        /\ (BadPlayerId /\ BadSport /\ FutureDate) =>
              /\ DoneCall.result.status = "error"
              /\ {"playerId", "sport", "date"} \subseteq Reported
              /\ {"Player ID is required",
                  IF Given("sport") /\ Input.sport # ""
                  THEN "Invalid sport type" ELSE "Sport is required",
                  "Match date cannot be in the future"} \subseteq ReportedMessages
        /\ BadPlayerId => "playerId" \in Reported
        /\ BadCoachId => "coachId" \in Reported
        /\ BadSport => "sport" \in Reported
        /\ FutureDate => "date" \in Reported
        /\ BadParameters => "parameters" \in Reported
        /\ BadScore => "calculatedScore" \in Reported

\* The input with the three violations was rejected.
C10_Witness ==
    /\ DoneSubmit
    /\ BadPlayerId /\ BadSport /\ FutureDate /\ ~BadCoachId
    /\ Given("parameters") /\ Input.sport = "tennis"
    /\ {"playerId", "sport", "date"} \subseteq Reported
    /\ "Invalid sport type" \in ReportedMessages

\* C11 as the spec states it: a submission that carries no date is
\* accepted, the match is dated at the submission time, persisted and
\* counted in the aggregate.
C11_MissingDateDefaults ==
    (/\ DoneSubmit
     /\ ~Given("date")
     /\ ~BadPlayerId /\ ~BadCoachId /\ ~BadSport /\ ~BadParameters /\ ~BadScore
     /\ DoneCall.raised = Null) =>
        /\ DoneCall.result.status = "ok"
        /\ \E m \in matches : m.id = DoneCall.result.id[1] /\ m.date = now
        /\ players[DoneCall.playerId][1].matchCount = 1

\* The record a successful submission stored, and the scores of the
\* player's other records, newest first, at most ten.
StoredRecord == CHOOSE m \in matches : m.id = DoneCall.result.id[1]
PriorScores ==
    ScoresOf(RecentOf(DocsById(MatchesOf(DoneCall.playerId) \ {StoredRecord}),
                      RecentLimit))
MessagesOf(suggestions) ==
    [i \in 1..Len(suggestions) |-> suggestions[i].message]
HoursBand(score) ==
    IF score < 60 THEN 48..71 ELSE IF score < 80 THEN 24..47 ELSE 12..23

\* C12: every match record persisted by submitMatchData carries a
\* calculatedScore, suggestions and a restRecommendation, all three derived
\* from the same sport, parameters and recent scores, and its
\* calculatedScore is score(sport, parameters) even when the input carried
\* a calculatedScore of its own.
C12_RecordComplete ==
    /\ \A m \in matches :
          /\ m.calculatedScore \in 0..100
          /\ m.suggestions # <<>>
          /\ m.restRecommendation # Null
    /\ (DoneSubmit /\ DoneCall.result.status = "ok") =>
          /\ StoredRecord.sport = Input.sport
          /\ StoredRecord.parameters = Input.parameters
          /\ StoredRecord.calculatedScore = SubmittedScore
          /\ StoredRecord.suggestions =
                MessagesOf(generateTrainingSuggestions(SubmittedScore, Input.sport,
                                                       Input.parameters))
                \o MessagesOf(generateTrendBasedSuggestions(PriorScores, Input.sport))
          /\ StoredRecord.restRecommendation[1].hours \in HoursBand(SubmittedScore)

\* The input carried a calculatedScore that is not its score, and the
\* stored record has a trend suggestion after the training suggestions.
C12_Witness ==
    /\ DoneSubmit /\ DoneCall.result.status = "ok"
    /\ Given("calculatedScore") /\ Input.calculatedScore # SubmittedScore
    /\ Len(PriorScores) >= 4
    /\ Len(StoredRecord.suggestions) >
          Len(generateTrainingSuggestions(SubmittedScore, Input.sport, Input.parameters))
    /\ StoredRecord.restRecommendation[1].hours = 47

\* ================================================= services/realtimeService.js
\* ------------------------------------------ firestoreService: the two watches
\* Field values of the watched documents: a store timestamp (it has toMillis),
\* a string or a number.
Value(kind, v) == [kind |-> kind, v |-> v]

\* String.prototype.localeCompare on the names used here: their alphabetical
\* order.
Collation == <<"Ann", "Bob", "Cy">>
localeCompare(a, b) ==
    LET rank(s) == CHOOSE i \in DOMAIN Collation : Collation[i] = s
    IN  rank(a) - rank(b)

\* The comparator handed to documents.sort: timestamps, strings and numbers
\* compare by value, reversed for 'desc'; anything else compares as equal.
Comparator(a, b, orderByField, orderDirection) ==
    IF orderByField \notin DOMAIN a \/ orderByField \notin DOMAIN b
    THEN 0
    ELSE LET aVal == a[orderByField]
             bVal == b[orderByField]
         IN  IF aVal.kind = "timestamp" /\ bVal.kind = "timestamp"
             THEN IF orderDirection = "desc" THEN bVal.v - aVal.v ELSE aVal.v - bVal.v
             ELSE IF aVal.kind = "string" /\ bVal.kind = "string"
             THEN IF orderDirection = "desc"
                  THEN 0 - localeCompare(aVal.v, bVal.v)
                  ELSE localeCompare(aVal.v, bVal.v)
             ELSE IF aVal.kind = "number" /\ bVal.kind = "number"
             THEN IF orderDirection = "desc" THEN bVal.v - aVal.v ELSE aVal.v - bVal.v
             ELSE 0

\* The comparator orders the documents consistently when every document has
\* the field and all the values are of one kind.
Comparable(documents, orderByField) ==
    /\ \A i \in DOMAIN documents : orderByField \in DOMAIN documents[i]
    /\ \A i, j \in DOMAIN documents :
          documents[i][orderByField].kind = documents[j][orderByField].kind

\* (no sort: documents stay in their order of arrival)
InsertUnsorted(sorted, document, orderByField, orderDirection) ==
    Append(sorted, document)

\* Array.prototype.sort is stable: a document goes behind the last one the
\* comparator does not put after it.
InsertStable(sorted, document, orderByField, orderDirection) ==
    LET notAfter == {i \in DOMAIN sorted :
                        Comparator(sorted[i], document, orderByField, orderDirection) <= 0}
        at == IF notAfter = {}
              THEN 0
              ELSE CHOOSE i \in notAfter : \A j \in notAfter : j <= i
    IN  SubSeq(sorted, 1, at) \o <<document>> \o SubSeq(sorted, at + 1, Len(sorted))

RECURSIVE StableSort(_, _, _, _)
StableSort(documents, n, orderByField, orderDirection) ==
    IF n = 0
    THEN <<>>
    ELSE InsertStable(StableSort(documents, n - 1, orderByField, orderDirection),
                      documents[n], orderByField, orderDirection)

\* documents.sort(comparator): where the comparator is inconsistent the order
\* is implementation-defined.
SortOutcomes(documents, orderByField, orderDirection) ==
    IF Comparable(documents, orderByField)
    THEN {StableSort(documents, Len(documents), orderByField, orderDirection)}
    ELSE {[i \in DOMAIN documents |-> documents[f[i]]] :
            f \in {g \in [DOMAIN documents -> DOMAIN documents] :
                      \A i, j \in DOMAIN documents : g[i] = g[j] => i = j}}

\* A parameter the caller leaves out, and the default it then takes.
Undefined == "undefined"
Default(argument, value) == IF argument = Undefined THEN value ELSE argument

\* onQueryChange's snapshot handler: the documents it hands to its callback,
\* sorted only if a field to order by is named (the direction defaults to
\* 'asc'); its error handler hands over no document and the wrapped error.
QuerySnapshotArgs(documents, orderByField, orderDirection) ==
    IF Default(orderByField, "") # ""
    THEN {<<sorted>> : sorted \in SortOutcomes(documents, orderByField,
                                                Default(orderDirection, "asc"))}
    ELSE {<<documents>>}

QueryErrorArgs(native) == <<<<>>, handleFirestoreError(native)>>

\* onDocumentChange's error handler: null and the wrapped error (its snapshot
\* handler hands over the document, or null if there is none).
DocumentErrorArgs(native) == <<Null, handleFirestoreError(native)>>

\* The listener onSnapshot registers and onQueryChange / onDocumentChange
\* return the unsubscribe function of: what it watches, the order asked for,
\* the wrapper realtimeService gave as callback (message type, key and
\* subscriber), whether the store still notifies it and how many times its
\* unsubscribe function has been called.
onQueryChange(collectionName, type, key, target, subscriber, orderByField, orderDirection) ==
    [watch |-> "query", collection |-> collectionName, type |-> type,
     key |-> key, target |-> target, subscriber |-> subscriber,
     orderByField |-> orderByField, orderDirection |-> orderDirection,
     live |-> TRUE, released |-> 0]

onDocumentChange(collectionName, type, key, target, subscriber) ==
    [watch |-> "document", collection |-> collectionName, type |-> type,
     key |-> key, target |-> target, subscriber |-> subscriber,
     orderByField |-> Undefined, orderDirection |-> Undefined,
     live |-> TRUE, released |-> 0]

\* The wrapper of a watch, e.g. (matches) => callback({type, playerId, data:
\* matches}): the arguments the subscriber's callback is invoked with, given
\* the arguments the watch's handler passed.
Forward(watch, args) ==
    <<(watch.key :> watch.target) @@ [type |-> watch.type, data |-> args[1]]>>

\* `player-${playerId}-${Date.now()}` and `coach-${coachId}-${Date.now()}`
SubscriptionId(kind, target, time) == <<kind, target, time>>

\* Map.prototype.set and Map.prototype.delete
MapSet(map, key, value) ==
    [k \in DOMAIN map \cup {key} |-> IF k = key THEN value ELSE map[k]]

MapDelete(map, key) == [k \in DOMAIN map \ {key} |-> map[k]]

\* Calling the unsubscribe functions a subscription holds: each listener is
\* detached, and counts the call.
ReleaseOne(ws, handles) ==
    LET first == CHOOSE h \in DOMAIN handles : TRUE
    IN  [i \in DOMAIN ws |->
            IF i = handles[first]
            THEN [ws[i] EXCEPT !.live = FALSE, !.released = @ + 1]
            ELSE ws[i]]

Release(ws, handles) ==
    [i \in DOMAIN ws |->
        IF \E h \in DOMAIN handles : handles[h] = i
        THEN [ws[i] EXCEPT !.live = FALSE, !.released = @ + 1]
        ELSE ws[i]]

\* unsubscribe(subscriptionId) on the service's map and the store's listeners
unsubscribe(service, subscriptionId) ==
    IF subscriptionId \in DOMAIN service.subscriptions
    THEN [subscriptions |-> MapDelete(service.subscriptions, subscriptionId),
          watches |-> Release(service.watches, service.subscriptions[subscriptionId])]
    ELSE service

\* unsubscribeAll(): unsubscribe(id) for every entry of the map, then clear()
RECURSIVE unsubscribeEach(_, _)
unsubscribeEach(service, ids) ==
    IF ids = {}
    THEN service
    ELSE LET id == CHOOSE i \in ids : TRUE
         IN  unsubscribeEach(unsubscribe(service, id), ids \ {id})

unsubscribeAll(service) ==
    [unsubscribeEach(service, DOMAIN service.subscriptions)
        EXCEPT !.subscriptions = <<>>]

isSubscriptionActive(subscriptionId) == subscriptionId \in DOMAIN subscriptions

Service == [subscriptions |-> subscriptions, watches |-> watches]

\* A subscriber's callback is invoked: it counts, keeps the arguments and
\* notes whether it had already unsubscribed.
Invoked(subscriber, args) ==
    [subscriber EXCEPT !.invocations = @ + 1,
                       !.last = Some(args),
                       !.late = @ \/ subscriber.unsubscribed]

storeVars == <<users, players, matches, usedIds, calls>>

SubscribeToPlayerUpdates(k, playerId) ==
    LET subscriptionId == SubscriptionId("player", playerId, now)
        n == Len(watches)
    IN  /\ subscribers[k].id = Null
        /\ watches' = watches \o
              <<onQueryChange("matches", "matches_updated", "playerId", playerId,
                              k, "date", "desc"),
                onDocumentChange("players", "player_updated", "playerId",
                                 playerId, k)>>
        /\ subscriptions' = MapSet(subscriptions, subscriptionId,
                                   [matches |-> n + 1, player |-> n + 2])
        /\ subscribers' = [subscribers EXCEPT ![k].id = Some(subscriptionId)]
        /\ UNCHANGED <<now, storeVars, debounced, offline, probe>>

SubscribeToCoachUpdates(k, coachId) ==
    LET subscriptionId == SubscriptionId("coach", coachId, now)
        n == Len(watches)
    IN  /\ subscribers[k].id = Null
        /\ watches' = watches \o
              <<onQueryChange("players", "players_updated", "coachId", coachId,
                              k, "name", "asc"),
                onQueryChange("matches", "team_matches_updated", "coachId",
                              coachId, k, "date", "desc")>>
        /\ subscriptions' = MapSet(subscriptions, subscriptionId,
                                   [players |-> n + 1, matches |-> n + 2])
        /\ subscribers' = [subscribers EXCEPT ![k].id = Some(subscriptionId)]
        /\ UNCHANGED <<now, storeVars, debounced, offline, probe>>

\* subscribeToPlayerUpdates for a playerId that names no document (the empty
\* string): the watch on the matches query is opened, then onDocumentChange
\* throws; the catch block logs and rethrows, nothing is stored under the
\* subscription id and the caller receives no id.
SubscribeToPlayerUpdatesThrows(k, playerId) ==
    /\ subscribers[k].id = Null
    /\ Len(watches) < MaxWatches
    /\ watches' = watches \o
          <<onQueryChange("matches", "matches_updated", "playerId", playerId,
                          k, "date", "desc")>>
    /\ UNCHANGED <<now, storeVars, subscriptions, subscribers, debounced, offline, probe>>

\* Subscriber k calls unsubscribe with the id its subscribe call returned.
Unsubscribe(k) ==
    /\ subscribers[k].id # Null
    /\ LET after == unsubscribe(Service, subscribers[k].id[1])
       IN  /\ subscriptions' = after.subscriptions
           /\ watches' = after.watches
    /\ subscribers' = [subscribers EXCEPT ![k].unsubscribed = TRUE]
    /\ UNCHANGED <<now, storeVars, debounced, offline, probe>>

UnsubscribeAll ==
    /\ LET after == unsubscribeAll(Service)
       IN  /\ subscriptions' = after.subscriptions
           /\ watches' = after.watches
    /\ subscribers' =
          [k \in Subscribers |->
              IF subscribers[k].id # Null /\ isSubscriptionActive(subscribers[k].id[1])
              THEN [subscribers[k] EXCEPT !.unsubscribed = TRUE]
              ELSE subscribers[k]]
    /\ UNCHANGED <<now, storeVars, debounced, offline, probe>>

\* The documents a snapshot may bring, in any order.
WatchedDocuments(collectionName) ==
    IF collectionName = "matches"
    THEN {[id |-> "m1", date |-> Value("timestamp", 1)], [id |-> "m2", date |-> Value("timestamp", 2)]}
    ELSE {[id |-> "p1", name |-> Value("string", "Bob")], [id |-> "p2", name |-> Value("string", "Ann")]}

Snapshots(docs) ==
    {s \in UNION {[1..n -> docs] : n \in 0..Cardinality(docs)} :
        \A i, j \in DOMAIN s : s[i] = s[j] => i = j}

\* The store notifies a live listener: its handler builds the arguments, the
\* wrapper forwards them to the subscriber's callback, and the callback
\* returns, or first calls unsubscribe with its own id.
Notify(w, then) ==
    LET watch == watches[w]
        k == watch.subscriber
    IN  /\ watch.live
        /\ subscribers[k].invocations < MaxNotifications
        /\ \E args \in
              IF watch.watch = "query"
              THEN UNION {QuerySnapshotArgs(documents, watch.orderByField,
                                            watch.orderDirection) :
                             documents \in Snapshots(WatchedDocuments(watch.collection))}
              ELSE {<<document>> :
                       document \in {Null} \cup
                                    {Some(d) : d \in WatchedDocuments(watch.collection)}} :
              LET invoked == [subscribers EXCEPT ![k] = Invoked(@, Forward(watch, args))]
              IN  IF then = "unsubscribe"
                  THEN LET after == unsubscribe(Service, subscribers[k].id[1])
                       IN  /\ subscriptions' = after.subscriptions
                           /\ watches' = after.watches
                           /\ subscribers' = [invoked EXCEPT ![k].unsubscribed = TRUE]
                  ELSE /\ subscribers' = invoked
                       /\ UNCHANGED <<subscriptions, watches>>
        /\ UNCHANGED <<now, storeVars, debounced, offline, probe>>

\* The store reports an error on a live listener, which ends it: the error
\* handler passes the wrapped error as a second argument to the wrapper.
WatchError(w, native) ==
    LET watch == watches[w]
        k == watch.subscriber
        args == IF watch.watch = "query"
                THEN QueryErrorArgs(native)
                ELSE DocumentErrorArgs(native)
    IN  /\ watch.live
        /\ subscribers[k].invocations < MaxNotifications
        /\ subscribers' = [subscribers EXCEPT ![k] = Invoked(@, Forward(watch, args))]
        /\ watches' = [watches EXCEPT ![w].live = FALSE]
        /\ UNCHANGED <<now, storeVars, subscriptions, debounced, offline, probe>>

\* A millisecond passes; a timer that is due fires first.
Tick(limit) ==
    /\ now < limit
    /\ debounced.timeoutId # Null => now < debounced.timeoutId[1].due
    /\ now' = now + 1
    /\ UNCHANGED <<storeVars, realtimeVars, probe>>

InitRealtime ==
    /\ now = 1
    /\ users = [p \in Players |-> IF p = "p1" THEN EmailOf(p) ELSE ""]
    /\ players = [p \in Players |-> IF p = "p1" THEN Some(NewPlayerData) ELSE Null]
    /\ matches = {}
    /\ usedIds = {}
    /\ calls = [p \in Procs |-> IdleCall]
    /\ NoRealtime
    /\ probe = Null

\* Two subscribers: each subscribes once, to a player or to the coach, the
\* store notifies or fails their listeners, and they unsubscribe.
NextRealtime ==
    \/ \E k \in Subscribers, playerId \in Players : SubscribeToPlayerUpdates(k, playerId)
    \/ \E k \in Subscribers : SubscribeToCoachUpdates(k, Coach)
    \/ \E k \in Subscribers : Unsubscribe(k)
    \/ UnsubscribeAll
    \/ \E w \in DOMAIN watches, then \in {"return", "unsubscribe"} : Notify(w, then)
    \/ \E w \in DOMAIN watches, native \in NativeErrors : WatchError(w, native)
    \/ Tick(MaxTime)

SpecRealtime == InitRealtime /\ [][NextRealtime]_vars

\* Subscribe calls that succeed or fail half way, and the calls that end
\* subscriptions.
NextSubscribe ==
    \/ \E k \in Subscribers, playerId \in Players : SubscribeToPlayerUpdates(k, playerId)
    \/ \E k \in Subscribers : SubscribeToPlayerUpdatesThrows(k, "")
    \/ \E k \in Subscribers : Unsubscribe(k)
    \/ UnsubscribeAll
    \/ Tick(MaxTime)

SpecSubscribe == InitRealtime /\ [][NextSubscribe]_vars

\* ------------------------------------------- contexts/OfflineContext.jsx
\* The effect on [isOnline, wasOffline, pendingActions], run after each
\* change of one of them: when the connection is back and actions are
\* pending, processPendingActions() begins a run over a copy of the pending
\* actions and calls the handler of the first.
ProcessOnReconnect(state) ==
    IF /\ state.isOnline /\ state.wasOffline
       /\ Len(state.pendingActions) > 0
       /\ Len(state.runs) < MaxRuns
    THEN [state EXCEPT !.runs =
             Append(@, [actionsToProcess |-> state.pendingActions, at |-> 1])]
    ELSE state

\* useNetworkStatus() reports other values of isOnline and wasOffline.
Connectivity(isOnline, wasOffline) ==
    /\ <<isOnline, wasOffline>> # <<offline.isOnline, offline.wasOffline>>
    /\ offline' = ProcessOnReconnect([offline EXCEPT !.isOnline = isOnline,
                                                     !.wasOffline = wasOffline])
    /\ UNCHANGED <<now, storeVars, subscriptions, watches, subscribers, debounced, probe>>

\* A write made while offline: createDocument queues an action with its
\* handler through addPendingAction, which gives it an id of its own.
AddPendingAction ==
    /\ ~offline.isOnline
    /\ offline.added < MaxActions
    /\ offline' = ProcessOnReconnect(
          [offline EXCEPT !.added = @ + 1,
                          !.pendingActions = Append(@, offline.added + 1),
                          !.succeeded = Append(@, 0)])
    /\ UNCHANGED <<now, storeVars, subscriptions, watches, subscribers, debounced, probe>>

\* OfflineStatus: the user asks for the pending actions to be synchronised.
HandleSyncPending ==
    /\ offline.isOnline
    /\ Len(offline.pendingActions) > 0
    /\ Len(offline.runs) < MaxRuns
    /\ offline' = [offline EXCEPT !.runs =
          Append(@, [actionsToProcess |-> offline.pendingActions, at |-> 1])]
    /\ UNCHANGED <<now, storeVars, subscriptions, watches, subscribers, debounced, probe>>

\* The handler a run of processPendingActions awaits settles: on success
\* removePendingAction(action.id) filters the action out of the pending
\* ones (and the effect runs), on failure the action is kept; the run
\* goes on with the next action of its copy, or ends.
HandlerSettles(r, ok) ==
    LET run == offline.runs[r]
        id == run.actionsToProcess[run.at]
        settled ==
            IF ok
            THEN [offline EXCEPT !.succeeded[id] = @ + 1,
                                 !.pendingActions = SelectSeq(@, LAMBDA a : a # id)]
            ELSE offline
        advanced ==
            [settled EXCEPT !.runs =
                IF run.at < Len(run.actionsToProcess)
                THEN [@ EXCEPT ![r].at = run.at + 1]
                ELSE SubSeq(@, 1, r - 1) \o SubSeq(@, r + 1, Len(@))]
    IN  /\ offline' = IF ok THEN ProcessOnReconnect(advanced) ELSE advanced
        /\ UNCHANGED <<now, storeVars, subscriptions, watches, subscribers, debounced, probe>>

NextOffline ==
    \/ \E isOnline, wasOffline \in BOOLEAN : Connectivity(isOnline, wasOffline)
    \/ AddPendingAction
    \/ HandleSyncPending
    \/ \E r \in DOMAIN offline.runs, ok \in BOOLEAN : HandlerSettles(r, ok)

SpecOffline == InitRealtime /\ [][NextOffline]_vars

\* ------------------------------------------------------------------ C13
\* C13: once a subscriber's unsubscribe(id) has returned, its callback is
\* never invoked again, whatever the store notifies later (and
\* isSubscriptionActive(id) is false when unsubscribe returns).
C13_SilentAfterUnsubscribe ==
    \A k \in Subscribers : ~subscribers[k].late

\* unsubscribe itself leaves the id inactive
C13_InactiveOnReturn ==
    [][\A k \in Subscribers :
          (subscribers[k].id # Null /\ ~subscribers[k].unsubscribed
           /\ subscribers'[k].unsubscribed)
          => subscribers[k].id[1] \notin DOMAIN subscriptions']_vars

\* Two subscribers were given the same id.
SharedId ==
    \E j, k \in Subscribers :
        j # k /\ subscribers[j].id # Null /\ subscribers[j].id = subscribers[k].id

\* ------------------------------------------------------------------ C14
\* C14: unsubscribe(id) and unsubscribeAll() release every store watch of the
\* subscription(s) torn down, each exactly once however often they are
\* called: every listener of a subscriber whose id was unsubscribed has had
\* its unsubscribe function called once.
C14_ReleasedExactlyOnce ==
    \A w \in DOMAIN watches :
        subscribers[watches[w].subscriber].unsubscribed => watches[w].released = 1

\* a call for an id that is not registered changes nothing, and unsubscribeAll
\* leaves no subscription
C14_Idempotent ==
    [][/\ \A k \in Subscribers :
             (subscribers[k].id # Null /\ ~isSubscriptionActive(subscribers[k].id[1]))
             => unsubscribe(Service, subscribers[k].id[1]) = Service
       /\ unsubscribeAll(Service).subscriptions = <<>>
       /\ unsubscribeAll(unsubscribeAll(Service)) = unsubscribeAll(Service)]_vars

\* ------------------------------------------------------ debounceUpdates
\* The delay given to debounceUpdates, in milliseconds.
Delay == 2

\* clearTimeout(timeoutId) and setTimeout(() => callback.apply(this, args),
\* delay): the pending timer is replaced by one for these arguments.
setTimeoutNoClear(timeoutId, args, time) ==
    IF timeoutId = Null
    THEN Some([due |-> time + Delay, args |-> args])
    ELSE timeoutId

setTimeout(timeoutId, args, time) == Some([due |-> time + Delay, args |-> args])

\* The function debounceUpdates returned is called.
CallDebounced(args) ==
    /\ Cardinality({i \in DOMAIN debounced.events :
                       debounced.events[i].e = "call"}) < MaxCalls
    /\ debounced' =
          [timeoutId |-> setTimeout(debounced.timeoutId, args, now),
           events |-> Append(debounced.events,
                             [e |-> "call", at |-> now, args |-> args])]
    /\ UNCHANGED <<now, storeVars, subscriptions, watches, subscribers, offline, probe>>

\* The timer fires: the inner callback runs with the arguments it was set for.
TimerFires ==
    /\ debounced.timeoutId # Null
    /\ now >= debounced.timeoutId[1].due
    /\ debounced' =
          [timeoutId |-> Null,
           events |-> Append(debounced.events,
                             [e |-> "run", at |-> now,
                              args |-> debounced.timeoutId[1].args])]
    /\ UNCHANGED <<now, storeVars, subscriptions, watches, subscribers, offline, probe>>

NextDebounce ==
    \/ \E args \in {<<"update1">>, <<"update2">>} : CallDebounced(args)
    \/ TimerFires
    \/ Tick(MaxTime * (Delay + 1))

SpecDebounce == InitRealtime /\ [][NextDebounce]_vars

\* ------------------------------------------------------------------ C15
Runs == {i \in DOMAIN debounced.events : debounced.events[i].e = "run"}
CallsMade == {i \in DOMAIN debounced.events : debounced.events[i].e = "call"}

\* the last call made before event i
LastCallBefore(i) ==
    CHOOSE j \in CallsMade : j < i /\ \A l \in CallsMade : l < i => l <= j

\* C15: the inner callback runs at most once per delay; after a burst of
\* calls followed by the delay without calls it has run exactly once, with
\* the arguments of the last call of the burst.
C15_Debounced ==
    LET events == debounced.events
    IN  /\ \A i, j \in Runs : i < j => events[j].at - events[i].at >= Delay
        /\ \A i \in Runs :
              /\ \E j \in CallsMade : j < i
              /\ events[i].args = events[LastCallBefore(i)].args
              /\ events[i].at = events[LastCallBefore(i)].at + Delay
              /\ \A r \in Runs : ~(LastCallBefore(i) < r /\ r < i)
        /\ \A j \in CallsMade :
              now > events[j].at + Delay =>
                 \E i \in DOMAIN events : i > j /\ events[i].at <= events[j].at + Delay

\* a burst of two calls with different arguments, then the run
C15_Witness ==
    LET events == debounced.events
    IN  \E i \in Runs :
           /\ i >= 3
           /\ events[i - 1].e = "call" /\ events[i - 2].e = "call"
           /\ events[i - 1].args # events[i - 2].args
           /\ events[i - 1].at < events[i].at

\* ------------------------------------------------------------------ C16
\* C16: when a store watch of a player or coach subscription reports an
\* error, the subscriber's callback is invoked with that error (as a second
\* argument or in the message) together with a null or empty payload.
C16_ErrorDelivered ==
    [][\A w \in DOMAIN watches :
          (watches[w].live /\ ~watches'[w].live
           /\ watches'[w].released = watches[w].released)
          => LET args == subscribers'[watches[w].subscriber].last[1]
             IN  /\ args[1].data = <<>>
                 /\ \E native \in NativeErrors :
                       \/ Len(args) >= 2 /\ args[2] = handleFirestoreError(native)
                       \/ /\ "error" \in DOMAIN args[1]
                          /\ args[1].error = handleFirestoreError(native)]_vars

\* ------------------------------------------------ pure functions, applied
\* The documents of a query snapshot: two of them share a date and two a
\* name; one has neither a date nor a score.
SnapshotDocuments ==
    {[id |-> "m1", date |-> Value("timestamp", 1), name |-> Value("string", "Bob"),
      score |-> Value("number", 2)],
     [id |-> "m2", date |-> Value("timestamp", 2), name |-> Value("string", "Ann"),
      score |-> Value("number", 1)],
     [id |-> "m3", date |-> Value("timestamp", 2), name |-> Value("string", "Bob"),
      score |-> Value("number", 3)],
     [id |-> "m4", name |-> Value("string", "Cy")]}

\* onQueryChange(collectionName, filters, callback, orderByField,
\* orderDirection) and a snapshot for it
QueryInputs ==
    {[documents |-> documents, orderByField |-> orderByField,
      orderDirection |-> orderDirection] :
        documents \in {s \in UNION {[1..n -> SnapshotDocuments] : n \in 0..MaxDocs} :
                          \A i, j \in DOMAIN s : s[i] = s[j] => i = j},
        orderByField \in {"date", "name", "score", Undefined},
        orderDirection \in {"asc", "desc", Undefined}}

\* Parameter values of the form: the ends of each field's range and values
\* in between, and one beyond the range.
ScoreInputs ==
    {[sport |-> "cricket",
      parameters |-> [runsScored |-> r, ballsFaced |-> b, wicketsTaken |-> w,
                      catches |-> c, oversBowled |-> o]] :
        r \in {0, 45, 100, 500, 501}, b \in {0, 30, 60, 600}, w \in {0, 2, 10},
        c \in {0, 1, 20}, o \in {0, 4, 50}}
    \cup
    {[sport |-> "football",
      parameters |-> [goalsScored |-> g, assists |-> a, passesCompleted |-> p,
                      tacklesMade |-> t, minutesPlayed |-> m]] :
        g \in {0, 1, 20}, a \in {0, 1, 20}, p \in {0, 45, 200},
        t \in {0, 3, 50}, m \in {0, 1, 90, 120, 121}}
    \cup
    {[sport |-> "basketball",
      parameters |-> [pointsScored |-> pt, rebounds |-> r, assists |-> a,
                      steals |-> st, minutesPlayed |-> m]] :
        pt \in {0, 20, 100}, r \in {0, 8, 50}, a \in {0, 5, 30},
        st \in {0, 2, 20}, m \in {0, 1, 32, 48, 49}}

\* The scores of a set, from the highest to the lowest.
RECURSIVE Descending(_)
Descending(scores) ==
    IF scores = {}
    THEN <<>>
    ELSE LET highest == CHOOSE x \in scores : \A y \in scores : y <= x
         IN  <<highest>> \o Descending(scores \ {highest})

\* recentScores: up to MaxScores scores in any order, or 6 to MaxScores
\* scores each lower than the one before, and the sport
TrendInputs ==
    {[recentScores |-> scores, sport |-> sport] :
        scores \in UNION {[1..n -> {50, 58, 70}] : n \in 0..MaxScores}
                   \cup {Descending(chosen) :
                            chosen \in {c \in SUBSET {85, 75, 65, 12, 9, 7, 6, 5, 4, 3} :
                                           Cardinality(c) \in 6..MaxScores}},
        sport \in {"cricket"}}

\* generateRestRecommendation(score) and what Math.floor(Math.random() * 24)
\* gives inside it
RestInputs == [score : 0..100, random : 0..23]

\* players.reduce((top, player) => (player.averageScore || 0) >
\* (top?.averageScore || 0) ? player : top, null) over the first n players
RECURSIVE topPerformer(_, _)
topPerformer(teamPlayers, n) ==
    IF n = 0
    THEN Null
    ELSE LET top == topPerformer(teamPlayers, n - 1)
             player == teamPlayers[n]
         IN  IF player.averageScore > (IF top = Null THEN 0 ELSE top[1].averageScore)
             THEN Some(player)
             ELSE top

\* What getPlayersByCoach returns: up to MaxTeam players in the order of
\* their names, with their average scores.
TeamInputs ==
    {[i \in DOMAIN averages |-> [playerId |-> i, averageScore |-> averages[i]]] :
        averages \in UNION {[1..n -> {0, 70, 80}] : n \in 0..MaxTeam}}

\* removeCallback: callbacks.indexOf(callback), and splice(index, 1) if found.
removeCallback(callbacks, callback) ==
    IF \E i \in DOMAIN callbacks : callbacks[i] = callback
    THEN LET index == CHOOSE i \in DOMAIN callbacks :
                          /\ callbacks[i] = callback
                          /\ \A j \in 1..(i - 1) : callbacks[j] # callback
         IN  SubSeq(callbacks, 1, index - 1)
             \o SubSeq(callbacks, index + 1, Len(callbacks))
    ELSE callbacks

\* callbacks.forEach(callback => callback({...})) of the two listeners of
\* setupCrossComponentSync: the indexes below the length the array had when
\* the dispatch began are visited in turn, an index the array no longer has
\* is passed over, and the callback at a visited index is invoked and may
\* call removeCallback, addCallback or destroy before it returns.
RECURSIVE forEach(_, _, _, _, _)
forEach(sync, k, length, reaction, invoked) ==
    IF k > length THEN [sync |-> sync, invoked |-> invoked]
    ELSE IF k > Len(sync.callbacks)
    THEN forEach(sync, k + 1, length, reaction, invoked)
    ELSE LET callback == sync.callbacks[k]
             does == reaction[callback]
             after ==
                 CASE does.call = "removeCallback" ->
                          [sync EXCEPT !.callbacks = removeCallback(@, does.callback)]
                   [] does.call = "addCallback" ->
                          [sync EXCEPT !.callbacks = Append(@, does.callback)]
                   [] does.call = "destroy" ->
                          [callbacks |-> <<>>, live |-> FALSE]
                   [] OTHER -> sync
         IN  forEach(after, k + 1, length, reaction, Append(invoked, callback))

\* The callbacks registered with a cross-component subscription by
\* addCallback, what each of them does when it is invoked, and whether
\* destroy was called before the store notifies.
SyncInputs ==
    LET Callbacks == {"cb1", "cb2", "cb3"}
        Reactions(c) ==
            {[call |-> "return", callback |-> c], [call |-> "destroy", callback |-> c]}
            \cup [call : {"removeCallback", "addCallback"}, callback : Callbacks]
    IN  {[callbacks |-> callbacks, reaction |-> reaction, destroyed |-> destroyed] :
            callbacks \in {cs \in UNION {[1..n -> Callbacks] : n \in 0..MaxCallbacks} :
                              \A i, j \in DOMAIN cs : cs[i] = cs[j] => i = j},
            reaction \in {r \in [Callbacks -> UNION {Reactions(c) : c \in Callbacks}] :
                             \A c \in Callbacks : r[c] \in Reactions(c)},
            destroyed \in BOOLEAN}

InitProbe ==
    /\ now = MaxTime
    /\ users = [p \in Players |-> ""]
    /\ players = [p \in Players |-> Null]
    /\ matches = {}
    /\ usedIds = {}
    /\ calls = [p \in Procs |-> IdleCall]
    /\ NoRealtime
    /\ \/ \E input \in QueryInputs :
             probe = [fn |-> "onQueryChange", input |-> input, output |-> Null]
       \/ \E input \in ScoreInputs :
             probe = [fn |-> "calculatePerformanceScore", input |-> input,
                      output |-> Null]
       \/ \E input \in TrendInputs :
             probe = [fn |-> "generateTrendBasedSuggestions", input |-> input,
                      output |-> Null]
       \/ \E input \in RestInputs :
             probe = [fn |-> "generateRestRecommendation", input |-> input,
                      output |-> Null]
       \/ \E input \in TeamInputs :
             probe = [fn |-> "getTeamPerformanceOverview", input |-> input,
                      output |-> Null]
       \/ \E input \in SyncInputs :
             probe = [fn |-> "setupCrossComponentSync", input |-> input,
                      output |-> Null]

\* The snapshot handler of onQueryChange runs and calls its callback.
SnapshotHandled ==
    /\ probe.fn = "onQueryChange"
    /\ probe.output = Null
    /\ \E args \in QuerySnapshotArgs(probe.input.documents, probe.input.orderByField,
                                     probe.input.orderDirection) :
          probe' = [probe EXCEPT !.output = Some(args)]
    /\ UNCHANGED <<now, storeVars, realtimeVars>>

\* calculatePerformanceScore(sport, parameters) returns.
ScoreCalculated ==
    /\ probe.fn = "calculatePerformanceScore"
    /\ probe.output = Null
    /\ probe' = [probe EXCEPT !.output =
                    Some(calculatePerformanceScore(probe.input.sport,
                                                   probe.input.parameters))]
    /\ UNCHANGED <<now, storeVars, realtimeVars>>

\* generateTrendBasedSuggestions(recentScores, sport) returns.
TrendSuggested ==
    /\ probe.fn = "generateTrendBasedSuggestions"
    /\ probe.output = Null
    /\ probe' = [probe EXCEPT !.output =
                    Some(generateTrendBasedSuggestions(probe.input.recentScores,
                                                       probe.input.sport))]
    /\ UNCHANGED <<now, storeVars, realtimeVars>>

\* generateRestRecommendation(score) returns.
RestRecommended ==
    /\ probe.fn = "generateRestRecommendation"
    /\ probe.output = Null
    /\ probe' = [probe EXCEPT !.output =
                    Some(generateRestRecommendation(probe.input.score,
                                                    probe.input.random))]
    /\ UNCHANGED <<now, storeVars, realtimeVars>>

\* getTeamPerformanceOverview(coachId) returns its teamStats (totalPlayers
\* and topPerformer of them).
TeamOverviewed ==
    /\ probe.fn = "getTeamPerformanceOverview"
    /\ probe.output = Null
    /\ probe' = [probe EXCEPT !.output =
                    Some([totalPlayers |-> Len(probe.input),
                          topPerformer |-> IF Len(probe.input) > 0
                                           THEN topPerformer(probe.input, Len(probe.input))
                                           ELSE Null])]
    /\ UNCHANGED <<now, storeVars, realtimeVars>>

\* The store notifies a listener of setupCrossComponentSync, which
\* dispatches to the callbacks; after destroy() both listeners are released
\* and the store notifies none.
SyncNotified ==
    /\ probe.fn = "setupCrossComponentSync"
    /\ probe.output = Null
    /\ LET sync == IF probe.input.destroyed
                   THEN [callbacks |-> <<>>, live |-> FALSE]
                   ELSE [callbacks |-> probe.input.callbacks, live |-> TRUE]
       IN  probe' = [probe EXCEPT !.output =
                        Some(IF sync.live
                             THEN forEach(sync, 1, Len(sync.callbacks),
                                          probe.input.reaction, <<>>)
                             ELSE [sync |-> sync, invoked |-> <<>>])]
    /\ UNCHANGED <<now, storeVars, realtimeVars>>

NextProbe ==
    \/ SnapshotHandled
    \/ ScoreCalculated
    \/ TrendSuggested
    \/ RestRecommended
    \/ TeamOverviewed
    \/ SyncNotified

SpecProbe == InitProbe /\ [][NextProbe]_vars

\* ------------------------------------------------------------------ C17
\* The order of two values of one kind: negative, zero or positive.
Order(a, b) == IF a.kind = "string" THEN localeCompare(a.v, b.v) ELSE a.v - b.v

\* every document has the field, with values of one kind
OneKind(documents, field) ==
    \A i, j \in DOMAIN documents :
        /\ field \in DOMAIN documents[i]
        /\ field \in DOMAIN documents[j]
        /\ documents[i][field].kind = documents[j][field].kind

\* out is documents rearranged in the given direction of the field, documents
\* with equal values staying in their order of arrival
SortedBy(out, documents, field, direction) ==
    /\ Len(out) = Len(documents)
    /\ {out[i] : i \in DOMAIN out} = {documents[i] : i \in DOMAIN documents}
    /\ \A i, j \in DOMAIN out :
          i < j =>
             LET c == Order(out[i][field], out[j][field])
                 arrived(d) == CHOOSE n \in DOMAIN documents : documents[n] = d
             IN  /\ direction = "asc" => c <= 0
                 /\ direction = "desc" => c >= 0
                 /\ c = 0 => arrived(out[i]) < arrived(out[j])

SortProbed == probe.fn = "onQueryChange" /\ probe.output # Null

SortInDirection(default) ==
    (/\ SortProbed
     /\ probe.input.orderByField # Undefined
     /\ OneKind(probe.input.documents, probe.input.orderByField))
    => SortedBy(probe.output[1][1], probe.input.documents, probe.input.orderByField,
                IF probe.input.orderDirection = Undefined
                THEN default
                ELSE probe.input.orderDirection)

\* C17 as stated: the documents passed to a query-watch callback are sorted by
\* the requested field in the requested direction, and in descending order
\* when a field but no direction is named.
C17_DescendingByDefault == SortInDirection("desc")

\* C17 as the code has it: the documents passed to a query-watch callback are
\* sorted (stably) by the requested field in the requested direction, and in
\* ascending order when a field but no direction is named, provided every
\* document has the field with values of one kind.
C17_AscendingByDefault == SortInDirection("asc")

\* three documents, two of them with the same date, sorted with no direction
C17_Witness ==
    /\ SortProbed
    /\ probe.input.orderByField = "date"
    /\ probe.input.orderDirection = Undefined
    /\ OneKind(probe.input.documents, "date")
    /\ Len(probe.input.documents) = 3
    /\ probe.output[1][1] # probe.input.documents

\* ------------------------------------------------------------------ C18
\* The ranges of the sports' parameters.
Ranges ==
    [cricket |-> [runsScored |-> 0..500, ballsFaced |-> 0..600, wicketsTaken |-> 0..10,
                  catches |-> 0..20, oversBowled |-> 0..50],
     football |-> [goalsScored |-> 0..20, assists |-> 0..20, passesCompleted |-> 0..200,
                   tacklesMade |-> 0..50, minutesPlayed |-> 0..120],
     basketball |-> [pointsScored |-> 0..100, rebounds |-> 0..50, assists |-> 0..30,
                     steals |-> 0..20, minutesPlayed |-> 0..48]]

InRange(sport, parameters) ==
    /\ DOMAIN parameters = DOMAIN Ranges[sport]
    /\ \A field \in DOMAIN parameters : parameters[field] \in Ranges[sport][field]

ScoreProbed == probe.fn = "calculatePerformanceScore" /\ probe.output # Null

\* C18: for every supported sport and every parameter set within the sport's
\* ranges, calculatePerformanceScore returns an integer between 0 and 100.
C18_ScoreInRange ==
    (ScoreProbed /\ InRange(probe.input.sport, probe.input.parameters))
    => probe.output[1] \in 0..100

\* a football match of one minute with 20 goals: the sum of the parts is far
\* above 100
C18_Witness ==
    /\ ScoreProbed
    /\ probe.input.sport = "football"
    /\ probe.input.parameters.goalsScored = 20
    /\ probe.input.parameters.minutesPlayed = 1
    /\ InRange(probe.input.sport, probe.input.parameters)
    /\ probe.output[1] = 100

\* ------------------------------------------------------------------ C19
\* C19: the cricket score of {runsScored: 100, ballsFaced: 60, wicketsTaken:
\* 0, catches: 0, oversBowled: 0} is greater than 80.
C19_HighStrikeRate ==
    (/\ ScoreProbed
     /\ probe.input.sport = "cricket"
     /\ probe.input.parameters = [runsScored |-> 100, ballsFaced |-> 60,
                                  wicketsTaken |-> 0, catches |-> 0,
                                  oversBowled |-> 0])
    => probe.output[1] > 80

\* ------------------------------------------------------------------ C20
TrendProbed == probe.fn = "generateTrendBasedSuggestions" /\ probe.output # Null

NoTrendBelow(least) ==
    (TrendProbed /\ Len(probe.input.recentScores) < least) => probe.output[1] = <<>>

\* C20 as stated: generateTrendBasedSuggestions returns no trend suggestion
\* whenever recentScores holds fewer than 6 scores.
C20_NoTrendBelowSix == NoTrendBelow(6)

\* C20 as the code has it: generateTrendBasedSuggestions returns no trend
\* suggestion whenever recentScores holds fewer than 4 scores, and one
\* suggestion whenever it holds 4 or more.
C20_NoTrendBelowFour ==
    /\ NoTrendBelow(4)
    /\ (TrendProbed /\ Len(probe.input.recentScores) >= 4) => Len(probe.output[1]) = 1

\* three scores, the last well above the first: no suggestion
C20_Witness ==
    /\ TrendProbed
    /\ probe.input.recentScores = <<50, 58, 70>>
    /\ probe.output[1] = <<>>

\* ------------------------------------------------------------------ C21
StrictlyDecreasing(scores) ==
    \A i \in 1..(Len(scores) - 1) : scores[i] > scores[i + 1]

\* the last three scores and the (up to) three before them
LastThree(scores) == SubSeq(scores, Max(Len(scores) - 2, 1), Len(scores))
PrecedingThree(scores) == SubSeq(scores, Max(Len(scores) - 5, 1), Len(scores) - 3)

\* the difference of the two means is above (1), below (-1) or at (0) d
AgainstDifference(scores, d) ==
    LET num == SumSeq(LastThree(scores)) * Len(PrecedingThree(scores))
               - SumSeq(PrecedingThree(scores)) * Len(LastThree(scores))
        at == d * Len(LastThree(scores)) * Len(PrecedingThree(scores))
    IN  IF num > at THEN 1 ELSE IF num < at THEN 0 - 1 ELSE 0

DeclineHigh ==
    <<[type |-> "general",
       message |-> "Performance has declined recently. Consider reviewing your training routine and getting adequate rest.",
       priority |-> "high"]>>

TrendSuggestion(message, priority) ==
    <<[type |-> "general", message |-> message, priority |-> priority]>>

\* C22: when a trend suggestion is produced, with d the mean of the last 3
\* scores minus the mean of the (up to) 3 before them, exactly one suggestion
\* is emitted: excellent improvement (low) if d > 10, good improvement (low)
\* if 5 < d <= 10, significant decline (high) if d < -10, slight decline
\* (medium) if -10 <= d < -5, consistent performance (medium) if -5 <= d <= 5.
C22_Thresholds ==
    (TrendProbed /\ probe.output[1] # <<>>) =>
       LET scores == probe.input.recentScores
       IN  probe.output[1] =
              IF AgainstDifference(scores, 10) > 0
              THEN TrendSuggestion("Excellent improvement trend! Your hard work is paying off. Maintain this momentum.", "low")
              ELSE IF AgainstDifference(scores, 5) > 0
              THEN TrendSuggestion("Good improvement trend! Continue your current training approach.", "low")
              ELSE IF AgainstDifference(scores, 0 - 10) < 0
              THEN DeclineHigh
              ELSE IF AgainstDifference(scores, 0 - 5) < 0
              THEN TrendSuggestion("Slight decline in performance. Focus on fundamentals and ensure proper recovery.", "medium")
              ELSE TrendSuggestion("Consistent performance! Consider adding new challenges to break through plateaus.", "medium")

\* the same away from the thresholds: d is none of 10, 5, -5, -10
C22_AwayFromThresholds ==
    (/\ TrendProbed
     /\ \A d \in {10, 5, 0 - 5, 0 - 10} : AgainstDifference(probe.input.recentScores, d) # 0)
    => C22_Thresholds

\* ------------------------------------------------------------------ C23
RestProbed == probe.fn = "generateRestRecommendation" /\ probe.output # Null

\* C23: for every score and every outcome of the random draw,
\* generateRestRecommendation returns hours inside the band of the score:
\* 48 to 72 for score < 60, 24 to 48 for 60 <= score < 80, 12 to 24 for
\* score >= 80.
C23_HoursInBand ==
    RestProbed =>
       LET score == probe.input.score
           hours == probe.output[1].hours
       IN  /\ score < 60 => hours \in 48..72
           /\ (60 <= score /\ score < 80) => hours \in 24..48
           /\ score >= 80 => hours \in 12..24

\* the highest draw at the edge of the lowest band
C23_Witness ==
    /\ RestProbed
    /\ probe.input.score = 59
    /\ probe.input.random = 23
    /\ probe.output[1].hours = 71

\* ------------------------------------------------------------------ C24
TeamProbed == probe.fn = "getTeamPerformanceOverview" /\ probe.output # Null

\* the first player, in iteration order, whose average is the highest
FirstOfTheBest(teamPlayers) ==
    teamPlayers[CHOOSE i \in DOMAIN teamPlayers :
                   /\ \A j \in DOMAIN teamPlayers :
                         teamPlayers[j].averageScore <= teamPlayers[i].averageScore
                   /\ \A j \in 1..(i - 1) :
                         teamPlayers[j].averageScore < teamPlayers[i].averageScore]

\* C24: for a coach with at least one assigned player, topPerformer is a
\* player whose averageScore is the maximum among the assigned players, the
\* first of them in iteration order when several tie.
C24_TopPerformer ==
    (TeamProbed /\ Len(probe.input) >= 1)
    => probe.output[1].topPerformer = Some(FirstOfTheBest(probe.input))

\* the same for a team in which some player's average is above 0
C24_TopPerformerAboveZero ==
    (TeamProbed /\ \E i \in DOMAIN probe.input : probe.input[i].averageScore > 0)
    => probe.output[1].topPerformer = Some(FirstOfTheBest(probe.input))

\* ------------------------------------------------------------------ C25
\* The scores of the player's other records with the oldest first, so that
\* the last three are those of the three most recently dated matches and
\* the three before them those of the 4th to 6th most recent.
OldestFirst(scores) == [i \in 1..Len(scores) |-> scores[Len(scores) + 1 - i]]

\* C25: in submitMatchData the three scores that the trend suggestion
\* treats as the most recent are those of the player's three most recently
\* dated prior matches, and the three it treats as preceding are those of
\* the 4th to 6th most recent: the trend suggestion of the stored record is
\* the one of the prior scores taken from the oldest to the newest.
C25_RecentAreLatest ==
    (DoneSubmit /\ DoneCall.result.status = "ok") =>
        SubSeq(StoredRecord.suggestions,
               Len(generateTrainingSuggestions(SubmittedScore, Input.sport,
                                               Input.parameters)) + 1,
               Len(StoredRecord.suggestions))
          = MessagesOf(generateTrendBasedSuggestions(OldestFirst(PriorScores),
                                                     Input.sport))

\* ------------------------------------------------------------------ C26
\* The matches a lookup for the player finds: those carrying the e-mail
\* address of the player's profile, or those carrying the player's id when
\* no match carries that address.
FoundFor(playerId) ==
    LET byEmail == {m \in matches : users[playerId] # ""
                                     /\ m.playerEmail = users[playerId]}
    IN  IF byEmail # {} THEN byEmail ELSE {m \in matches : m.playerId = playerId}

\* scores holds the scores of at most ten of the found matches, the ones
\* with the latest dates, each as often as it occurs among them.
LatestScores(scores, found) ==
    \E latest \in SUBSET found :
        /\ Cardinality(latest) = IF Cardinality(found) < 10
                                 THEN Cardinality(found) ELSE 10
        /\ \A m \in latest, o \in found \ latest : o.date <= m.date
        /\ \A v \in 0..100 :
              Cardinality({i \in DOMAIN scores : scores[i] = v})
                = Cardinality({m \in latest : m.calculatedScore = v})

\* C26: the recentScores used by submitMatchData are the scores of at most
\* 10 of the player's prior matches, the ones with the latest dates, found
\* by the player's email address, or by the player's internal id whenever
\* the lookup by email yields no match.
C26_RecentScoresFound ==
    [][\A p \in Procs :
          (calls[p].pc # "s_create" /\ calls'[p].pc = "s_create") =>
              LatestScores(calls'[p].recentScores, FoundFor(calls'[p].playerId))]_vars

\* The same for the players whose profile has an e-mail address.
C26_RecentScoresWithProfile ==
    [][\A p \in Procs :
          (/\ calls[p].pc # "s_create" /\ calls'[p].pc = "s_create"
           /\ users[calls'[p].playerId] # "") =>
              LatestScores(calls'[p].recentScores, FoundFor(calls'[p].playerId))]_vars

\* ------------------------------------------------------------------ C28
\* C28: every subscribe call returns a subscription id different from every
\* id that is currently active, also when two subscriptions for the same
\* player or coach are created within the same clock millisecond.
C28_FreshId ==
    [][\A k \in Subscribers :
          (subscribers[k].id = Null /\ subscribers'[k].id # Null)
          => subscribers'[k].id[1] \notin DOMAIN subscriptions]_vars

\* ... so the watches of each active subscription stay tracked: every store
\* watch that has not been released is held by a registered subscription.
C28_WatchesTracked ==
    \A w \in DOMAIN watches :
        watches[w].released = 0 =>
            \E id \in DOMAIN subscriptions :
                \E handle \in DOMAIN subscriptions[id] : subscriptions[id][handle] = w

\* ------------------------------------------------------------------ C29
\* C29: if establishing one of the watches of a subscription fails, the
\* subscribe call raises the error and leaves no store watch established: a
\* watch that the same call had already opened is released, and no
\* subscription id is registered.  Every watch that has not been released
\* was opened by a subscribe call that returned an id to its subscriber.
C29_NoWatchLeftByFailure ==
    \A w \in DOMAIN watches :
        watches[w].released = 0 => subscribers[watches[w].subscriber].id # Null

\* no subscription id is registered by the failing call
C29_NoIdRegistered ==
    [][(Len(watches') > Len(watches) /\ subscribers' = subscribers)
          => subscriptions' = subscriptions]_vars

\* ------------------------------------------------------------------ C27
\* A store notification of a cross-component subscription has been
\* dispatched.
SyncProbed == probe.fn = "setupCrossComponentSync" /\ probe.output # Null

\* C27: each store notification of a cross-component subscription is
\* delivered to every callback that is registered when the notification is
\* dispatched, also when a callback calls removeCallback or addCallback
\* while the dispatch is running (no callback calling destroy).
C27_DeliveredToAll ==
    (/\ SyncProbed
     /\ ~probe.input.destroyed
     /\ \A i \in DOMAIN probe.input.callbacks :
           probe.input.reaction[probe.input.callbacks[i]].call # "destroy") =>
        \A i \in DOMAIN probe.input.callbacks :
            \E j \in DOMAIN probe.output[1].invoked :
                probe.output[1].invoked[j] = probe.input.callbacks[i]

\* ... and after destroy no callback is invoked: none by a notification
\* that follows destroy, and none once a callback has called destroy
\* during a dispatch.
C27_SilentAfterDestroy ==
    SyncProbed =>
        /\ probe.input.destroyed => probe.output[1].invoked = <<>>
        /\ \A j \in DOMAIN probe.output[1].invoked :
              probe.input.reaction[probe.output[1].invoked[j]].call = "destroy"
              => j = Len(probe.output[1].invoked)

\* ------------------------------------------------------------------ C30
\* C30: each write action queued while offline has its handler run to
\* success at most once after connectivity returns, in every interleaving
\* of pending-queue processing runs.
C30_SucceedsAtMostOnce ==
    \A id \in DOMAIN offline.succeeded : offline.succeeded[id] <= 1

\* ... and an action whose handler fails stays in the queue: an action
\* leaves the pending ones only as its handler succeeds.
C30_FailedStays ==
    [][\A id \in DOMAIN offline.succeeded :
          (/\ \E i \in DOMAIN offline.pendingActions : offline.pendingActions[i] = id
           /\ ~\E i \in DOMAIN offline'.pendingActions : offline'.pendingActions[i] = id)
          => offline'.succeeded[id] = offline.succeeded[id] + 1]_vars
====
